---------------------------- MODULE Spec2Model ----------------------------
(***************************************************************************)
(* Visual Product Matcher: the vector index wrapper (models/qdrant_db.py), *)
(* the catalog synchronizer (utils/data_loader.py) and the service         *)
(* manager (services/service_manager.py).                                  *)
(*                                                                         *)
(* Python strings are sequences of one-character strings, so that          *)
(* startswith, split, int() and the f-string formatting are computed and   *)
(* not assumed.  A Python int used where a string id is expected is the    *)
(* pair <<"int", n>>.                                                      *)
(***************************************************************************)
EXTENDS Integers, Sequences, FiniteSets, TLC

VARIABLES
    index,          \* Qdrant collection: numeric point id -> [vector, payload]
    products_file,  \* data/products.json: [exists, data (sequence of records)]
    images_dir,     \* data/images: set of files [name, ext, ok]
    s3_service,     \* TRUE when an S3Service instance is passed to the loaders
    s3_metadata,    \* metadata/products.json object in the bucket (<<>> = none)
    s3_objects,     \* image objects in the bucket: set of [key, ok]
    seed,           \* per-process string-hash randomisation (PYTHONHASHSEED)
    ingested,       \* history: string ids for which an upsert was issued and succeeded
    last,           \* history: what the last operation did
    enc,            \* codec runs: per process, the ids encoded so far and the outcome
    sm,             \* ServiceManager class/instance/module state
    th,             \* request threads of the service manager: position and locals
    built,          \* history: constructor calls per resource, start-up syncs run
    lostInstance,   \* history: a constructed instance was overwritten with None
    run,            \* concurrent runs of one procedure: position and locals
    env,            \* os.environ of the server process: variable -> string
    app,            \* what create_app and the lazy S3 set-up have come to
    collection_exists   \* the Qdrant server has the collection

vars == <<index, products_file, images_dir, s3_service, s3_metadata, s3_objects,
          seed, ingested, last, enc, sm, th, built, lostInstance, run,
          env, app, collection_exists>>

storeVars == <<index, products_file, images_dir, s3_service, s3_metadata, s3_objects>>
histVars == <<ingested, last>>
\* what the catalog operations leave alone
notCatalog == <<enc, sm, th, built, lostInstance, run, env, app, collection_exists>>

-----------------------------------------------------------------------------
(* Bounds *)

NumProcs == 2        \* independently started Python processes
MaxNum == 2          \* largest product number add_uploaded_image_to_database may assign
MaxManifest == 3     \* products.json is not grown beyond this many records
NumThreads == 2      \* request threads racing on the service manager
MaxBuilds == 2       \* constructor calls counted per resource
NumSeeds == 2        \* sampled hash randomisations
MaxOps == 2          \* catalog operations in one behaviour
MaxEnc == 2          \* ids one process converts before it is restarted

Procs == 1..NumProcs
Threads == 1..NumThreads

-----------------------------------------------------------------------------
(* Python str and int primitives *)

Digits == <<"0", "1", "2", "3", "4", "5", "6", "7", "8", "9">>

IsDigit(c) == \E i \in 1..10 : Digits[i] = c

DigitVal(c) == (CHOOSE i \in 1..10 : Digits[i] = c) - 1

\* str.startswith(prefix)
StartsWith(s, prefix) ==
    /\ Len(s) >= Len(prefix)
    /\ SubSeq(s, 1, Len(prefix)) = prefix

\* str.split(sep) for a one-character separator: the list of pieces
RECURSIVE SplitFrom(_, _, _, _)
SplitFrom(s, sep, i, cur) ==
    IF i > Len(s) THEN <<cur>>
    ELSE IF s[i] = sep THEN <<cur>> \o SplitFrom(s, sep, i + 1, <<>>)
    ELSE SplitFrom(s, sep, i + 1, Append(cur, s[i]))

Split(s, sep) == SplitFrom(s, sep, 1, <<>>)

\* str.strip() for the blank character
RECURSIVE LStrip(_)
LStrip(s) == IF s # <<>> /\ Head(s) = " " THEN LStrip(Tail(s)) ELSE s

RECURSIVE RStrip(_)
RStrip(s) ==
    IF s # <<>> /\ s[Len(s)] = " " THEN RStrip(SubSeq(s, 1, Len(s) - 1)) ELSE s

RECURSIVE DigitsValue(_, _)
DigitsValue(s, acc) ==
    IF s = <<>> THEN acc ELSE DigitsValue(Tail(s), acc * 10 + DigitVal(Head(s)))

\* 2**31 - 1, the largest value of the hash path (hash(s) % (2**31))
Int32Max == 2147483647

RECURSIVE StripZeros(_)
StripZeros(s) == IF Len(s) > 1 /\ Head(s) = "0" THEN StripZeros(Tail(s)) ELSE s

\* a > b for digit strings of one length
RECURSIVE DigitsGreater(_, _)
DigitsGreater(a, b) ==
    IF a = <<>> THEN FALSE
    ELSE IF Head(a) # Head(b) THEN DigitVal(Head(a)) > DigitVal(Head(b))
    ELSE DigitsGreater(Tail(a), Tail(b))

\* the number written by a digit string is above 2**31 - 1
Wide(body) ==
    LET d == StripZeros(body)
    IN  Len(d) > 10 \/ (Len(d) = 10 /\ DigitsGreater(d, <<"2", "1", "4", "7", "4", "8", "3", "6", "4", "7">>))

\* int(s): blanks stripped, an optional sign, then one or more decimal digits;
\* anything else raises ValueError.  A Python int has no width: wide says that
\* the magnitude is above 2**31 - 1, and val then only carries the sign (the
\* specifications that store points convert no such id).
ParseInt(s) ==
    LET t == RStrip(LStrip(s))
        signed == t # <<>> /\ Head(t) \in {"+", "-"}
        body == IF signed THEN Tail(t) ELSE t
        magnitude == IF Wide(body) THEN Int32Max ELSE DigitsValue(body, 0)
    IN  IF body = <<>> \/ \E i \in 1..Len(body) : ~IsDigit(body[i])
        THEN [ok |-> FALSE, val |-> 0, wide |-> FALSE]
        ELSE [ok |-> TRUE,
              val |-> IF signed /\ Head(t) = "-" THEN 0 - magnitude ELSE magnitude,
              wide |-> Wide(body)]

\* str(n) for n >= 0
RECURSIVE IntToStr(_)
IntToStr(n) ==
    IF n < 10 THEN <<Digits[n + 1]>>
    ELSE Append(IntToStr(n \div 10), Digits[(n % 10) + 1])

RECURSIVE ZeroPad(_, _)
ZeroPad(s, width) == IF Len(s) >= width THEN s ELSE ZeroPad(<<"0">> \o s, width)

\* f"{n:03d}"
Format03d(n) == ZeroPad(IntToStr(n), 3)

PyInt(n) == <<"int", n>>

IsPyInt(x) == Len(x) = 2 /\ x[1] = "int"

-----------------------------------------------------------------------------
(* The strings of the model *)

PRODUCT_ == <<"p", "r", "o", "d", "u", "c", "t", "_">>

P1 == PRODUCT_ \o <<"1">>
P01 == PRODUCT_ \o <<"0", "1">>
P2 == PRODUCT_ \o <<"2">>
PABC == PRODUCT_ \o <<"a", "b", "c">>
PNONE == PRODUCT_
P1X == PRODUCT_ \o <<"1", "_", "x">>
PNEG == PRODUCT_ \o <<"-", "1">>
MUG == <<"m", "u", "g">>
CAFE == <<"c", "a", "f", "\\u00e9">>
EMPTY == <<>>
\* 'product_2147483648'
PBIG == PRODUCT_ \o <<"2", "1", "4", "7", "4", "8", "3", "6", "4", "8">>

\* Python randomises str hashes per process (PYTHONHASHSEED is not set by the
\* repository).  A seed is the number of one sampled randomisation.
Seeds == 0..(NumSeeds - 1)

\* hash(s) % (2**31) of a non-empty string under a seed; 2147483647 is 2**31 - 1
StrHash(sd, s) ==
    CASE sd = 0 /\ s = MUG -> 7
      [] sd = 0 /\ s = CAFE -> 2147483647
      [] sd = 1 /\ s = MUG -> 1
      [] sd = 1 /\ s = CAFE -> 7
      [] sd > 1 /\ s = MUG -> 2147483647
      [] sd > 1 /\ s = CAFE -> 1
      [] OTHER -> 11 + sd + Len(s)

-----------------------------------------------------------------------------
(* Identifier codec: the conversion repeated in add_product,               *)
(* update_product_metadata, add_products_batch and get_product_by_id       *)

\* hash(product_id) % (2**31): hash('') is 0 in every process, every other
\* string's hash depends on the process's randomisation.
HashFallback(sd, product_id) ==
    IF product_id = EMPTY THEN 0 ELSE StrHash(sd, product_id)

\* [ok |-> FALSE] when int() raises ValueError
numeric_id(sd, product_id) ==
    IF StartsWith(product_id, PRODUCT_)
    THEN ParseInt(Split(product_id, "_")[2])
    ELSE [ok |-> TRUE, val |-> HashFallback(sd, product_id), wide |-> FALSE]

-----------------------------------------------------------------------------
(* Python dict helpers *)

SetKey(m, k, v) == [x \in DOMAIN m \cup {k} |-> IF x = k THEN v ELSE m[x]]

\* dict.get(k, default)
Get(m, k, default) == IF k \in DOMAIN m THEN m[k] ELSE default

\* dict.update(other), as set_payload merges a payload into a point
Merge(m, other) ==
    [x \in DOMAIN m \cup DOMAIN other |-> IF x \in DOMAIN other THEN other[x] ELSE m[x]]

RECURSIVE SeqToSet(_)
SeqToSet(s) == IF s = <<>> THEN {} ELSE {Head(s)} \cup SeqToSet(Tail(s))

Min(a, b) == IF a <= b THEN a ELSE b

SetMax(S, default) == IF S = {} THEN default ELSE CHOOSE x \in S : \A y \in S : y <= x

-----------------------------------------------------------------------------
(* Qdrant collection primitives (qdrant_client), as the wrapper uses them  *)

EmptyIndex == [n \in {} |-> [vector |-> <<>>, payload |-> <<>>]]

\* client.upsert(points): points are applied in order, a later point with the
\* same id overwrites an earlier one.
RECURSIVE Upsert(_, _)
Upsert(idx, points) ==
    IF points = <<>> THEN idx
    ELSE LET pt == Head(points)
         IN  Upsert([n \in DOMAIN idx \cup {pt.id} |->
                        IF n = pt.id
                        THEN [vector |-> pt.vector, payload |-> pt.payload]
                        ELSE idx[n]],
                    Tail(points))

\* a point id must be an unsigned integer, the client call raises otherwise
ValidPoints(points) == \A i \in 1..Len(points) : points[i].id >= 0

\* client.set_payload(payload, points=[n]): merged into the point when it exists
SetPayload(idx, n, payload) ==
    IF n \in DOMAIN idx
    THEN [idx EXCEPT ![n].payload = Merge(idx[n].payload, payload)]
    ELSE idx

RECURSIVE SortedSeq(_)
SortedSeq(S) ==
    IF S = {} THEN <<>>
    ELSE LET m == CHOOSE x \in S : \A y \in S : x <= y
         IN  <<m>> \o SortedSeq(S \ {m})

\* client.scroll(limit, offset): the first `limit` points whose id is at least
\* `offset`, in ascending id order.
Scroll(idx, limit, offset) ==
    LET ids == SortedSeq({n \in DOMAIN idx : n >= offset})
    IN  SubSeq(ids, 1, Min(limit, Len(ids)))

-----------------------------------------------------------------------------
(* QdrantVectorDB *)

PageSize == 100
DefaultBatchSize == 100
ScanLimit == 1000

\* the id a result reports: payload.get('original_id', point.id)
ReportedId(idx, n) == Get(idx[n].payload, "original_id", PyInt(n))

ResultOf(idx, n) == [id |-> ReportedId(idx, n), metadata |-> idx[n].payload]

RECURSIVE ResultsOf(_, _)
ResultsOf(idx, ids) ==
    IF ids = <<>> THEN <<>> ELSE <<ResultOf(idx, Head(ids))>> \o ResultsOf(idx, Tail(ids))

RECURSIVE ScrollLoop(_, _, _, _, _)
ScrollLoop(idx, limit, batch_size, results, offset) ==
    IF ~(Len(results) < limit) THEN results
    ELSE LET page == Scroll(idx, batch_size, offset)
         IN  IF page = <<>> THEN results
             ELSE IF Len(page) < batch_size
                  THEN results \o ResultsOf(idx, page)
                  ELSE ScrollLoop(idx, limit, batch_size,
                                  results \o ResultsOf(idx, page), offset + batch_size)

\* get_all_products(limit); dbOk = FALSE: the client raises, [] is returned
get_all_products(idx, limit, dbOk) ==
    IF ~dbOk THEN <<>>
    ELSE ScrollLoop(idx, limit, Min(limit, PageSize), <<>>, 0)

\* get_product_by_id(product_id): None is <<>>, a hit is <<result>>
get_product_by_id(idx, sd, product_id) ==
    LET nid == numeric_id(sd, product_id)
    IN  IF ~nid.ok THEN <<>>
        ELSE IF nid.val \in DOMAIN idx THEN <<ResultOf(idx, nid.val)>>
        ELSE <<>>

\* a payload in which a key the caller supplied is left as it is
StoredPayload_kept(product_id, metadata) ==
    IF "original_id" \in DOMAIN metadata THEN metadata
    ELSE [x \in DOMAIN metadata \cup {"original_id"} |->
            IF x = "original_id" THEN product_id ELSE metadata[x]]

\* metadata['original_id'] = product_id
StoredPayload(product_id, metadata) == SetKey(metadata, "original_id", product_id)

\* The points of one chunk; raised when an id conversion raises.
RECURSIVE ChunkPoints(_, _, _)
ChunkPoints(sd, batch, acc) ==
    IF batch = <<>> THEN [raised |-> FALSE, points |-> acc]
    ELSE LET pr == Head(batch)
             nid == numeric_id(sd, pr.id)
         IN  IF ~nid.ok THEN [raised |-> TRUE, points |-> acc]
             ELSE ChunkPoints(sd, Tail(batch),
                              Append(acc, [id |-> nid.val, vector |-> pr.embedding,
                                           payload |-> StoredPayload(pr.id, pr.metadata),
                                           sid |-> pr.id]))

RECURSIVE PointSids(_)
PointSids(points) ==
    IF points = <<>> THEN <<>> ELSE <<Head(points).sid>> \o PointSids(Tail(points))

\* The loop over chunks.  failAt = k > 0: the k-th bulk write raises.
RECURSIVE BatchLoop(_, _, _, _, _, _, _, _)
BatchLoop(idx, sd, products, batch_size, i, failAt, upserts, written) ==
    IF i > Len(products)
    THEN [index |-> idx, ret |-> Len(written), upserts |-> upserts,
          written |-> written, raised |-> FALSE]
    ELSE LET batch == SubSeq(products, i, Min(i + batch_size - 1, Len(products)))
             cp == ChunkPoints(sd, batch, <<>>)
         IN  IF cp.raised \/ ~ValidPoints(cp.points) \/ failAt = upserts + 1
             THEN [index |-> idx, ret |-> 0, upserts |-> upserts,
                   written |-> written, raised |-> TRUE]
             ELSE BatchLoop(Upsert(idx, cp.points), sd, products, batch_size,
                            i + batch_size, failAt, upserts + 1,
                            written \o PointSids(cp.points))

\* a batch insert that reports the points of the chunks written before a failure
add_products_batch_partial(idx, sd, products, batch_size, failAt) ==
    LET r == BatchLoop(idx, sd, products, batch_size, 1, failAt, 0, <<>>)
    IN  [r EXCEPT !.ret = Len(r.written)]

\* add_products_batch(products, batch_size): [index, ret (the int returned),
\* upserts (bulk writes that succeeded), written (ids written), raised]
add_products_batch(idx, sd, products, batch_size, failAt) ==
    BatchLoop(idx, sd, products, batch_size, 1, failAt, 0, <<>>)

\* add_product(product_id, embedding, metadata): [index, ret (bool)]
add_product(idx, sd, product_id, embedding, metadata, dbOk) ==
    LET nid == numeric_id(sd, product_id)
    IN  IF ~nid.ok \/ ~dbOk \/ nid.val < 0
        THEN [index |-> idx, ret |-> FALSE]
        ELSE [index |-> Upsert(idx, <<[id |-> nid.val, vector |-> embedding,
                                      payload |-> StoredPayload(product_id, metadata)]>>),
              ret |-> TRUE]

\* update_product_metadata(product_id, metadata): [index, ret (bool)]
update_product_metadata(idx, sd, product_id, metadata, dbOk) ==
    LET nid == numeric_id(sd, product_id)
    IN  IF ~nid.ok \/ ~dbOk \/ nid.val < 0
        THEN [index |-> idx, ret |-> FALSE]
        ELSE [index |-> SetPayload(idx, nid.val, StoredPayload(product_id, metadata)),
              ret |-> TRUE]

-----------------------------------------------------------------------------
(* File names *)

UpperLetters == <<"A", "B", "C", "D", "E", "F", "G", "H", "I", "J", "K", "L", "M",
                  "N", "O", "P", "Q", "R", "S", "T", "U", "V", "W", "X", "Y", "Z">>
LowerLetters == <<"a", "b", "c", "d", "e", "f", "g", "h", "i", "j", "k", "l", "m",
                  "n", "o", "p", "q", "r", "s", "t", "u", "v", "w", "x", "y", "z">>

UpperSet == {UpperLetters[i] : i \in 1..26}

LowerOf == [c \in UpperSet |-> LowerLetters[CHOOSE i \in 1..26 : UpperLetters[i] = c]]

LowerChar(c) == IF c \in UpperSet THEN LowerOf[c] ELSE c

\* str.lower()
Lower(s) == [i \in 1..Len(s) |-> LowerChar(s[i])]

\* str.endswith(suffix)
EndsWith(s, suffix) ==
    /\ Len(s) >= Len(suffix)
    /\ SubSeq(s, Len(s) - Len(suffix) + 1, Len(s)) = suffix

\* os.path.splitext(filename): <<root, ext>>; the extension starts at the last
\* dot, leading dots belong to the root.
SplitExt(filename) ==
    LET dots == {i \in 1..Len(filename) : filename[i] = "."}
        lead == {i \in 1..Len(filename) : \A j \in 1..i : filename[j] = "."}
        cand == dots \ lead
    IN  IF cand = {} THEN <<filename, <<>>>>
        ELSE LET k == SetMax(cand, 0)
             IN  <<SubSeq(filename, 1, k - 1), SubSeq(filename, k, Len(filename))>>

PNG == <<".", "p", "n", "g">>
JPG == <<".", "j", "p", "g">>
JPEG == <<".", "j", "p", "e", "g">>
WEBP == <<".", "w", "e", "b", "p">>
GIF == <<".", "g", "i", "f">>
TXT == <<".", "t", "x", "t">>

supported_formats == <<PNG, JPG, JPEG, WEBP, GIF>>

FileNames(files) == {f.filename : f \in files}

FileOf(files, filename) == CHOOSE f \in files : f.filename = filename

\* find_product_image(images_dir, product_id): <<>> is None, else <<filename>>
RECURSIVE FindImageFrom(_, _, _)
FindImageFrom(files, product_id, k) ==
    IF k > Len(supported_formats) THEN <<>>
    ELSE IF (product_id \o supported_formats[k]) \in FileNames(files)
         THEN <<product_id \o supported_formats[k]>>
         ELSE FindImageFrom(files, product_id, k + 1)

find_product_image(files, product_id) == FindImageFrom(files, product_id, 1)

\* clip_model.encode_image_from_path: raises on an unreadable image, else the
\* embedding, which is a function of the image alone
Embedding(filename) == <<"vec", filename>>

\* s3_service.get_image_url(s3_key), with image_prefix + filename as the key
ImageUrl(filename) == <<"https", filename>>

\* clip_model.encode_image_from_url succeeds when the object exists and decodes
UrlEmbeddable(objects, filename) ==
    \E o \in objects : o.key = filename /\ o.ok

-----------------------------------------------------------------------------
(* utils/data_loader.py *)

existing_ids_of(results) == {results[i].id : i \in 1..Len(results)}

RequiredKeys == {"name", "category", "price", "description"}

RECURSIVE StagedIds(_)
StagedIds(products) ==
    IF products = <<>> THEN <<>> ELSE <<Head(products).id>> \o StagedIds(Tail(products))

\* The staging loop of load_products_from_local.  escaped: the except handler
\* itself raised (it formats product['id']) and the exception left the function.
RECURSIVE StageLocal(_, _, _, _)
StageLocal(products_data, existing_ids, files, batch_products) ==
    IF products_data = <<>> THEN [escaped |-> FALSE, batch |-> batch_products]
    ELSE LET product == Head(products_data)
             rest == Tail(products_data)
         IN  IF "id" \notin DOMAIN product
             THEN [escaped |-> TRUE, batch |-> batch_products]
             ELSE IF product.id \in existing_ids
             THEN StageLocal(rest, existing_ids, files, batch_products)
             ELSE LET image_path == find_product_image(files, product.id)
                  IN  IF image_path = <<>>
                      THEN StageLocal(rest, existing_ids, files, batch_products)
                      ELSE IF ~FileOf(files, image_path[1]).ok
                              \/ ~(RequiredKeys \subseteq DOMAIN product)
                      THEN StageLocal(rest, existing_ids, files, batch_products)
                      ELSE StageLocal(rest, existing_ids, files,
                             Append(batch_products,
                               [id |-> product.id,
                                embedding |-> Embedding(image_path[1]),
                                metadata |->
                                  [name |-> product.name,
                                   category |-> product.category,
                                   price |-> product.price,
                                   description |-> product.description,
                                   image_path |-> image_path[1],
                                   brand |-> Get(product, "brand", "Unknown"),
                                   rating |-> Get(product, "rating", 0)]]))

\* The staging loop of load_products_from_s3.
RECURSIVE StageS3(_, _, _, _)
StageS3(metadata, existing_ids, objects, batch_products) ==
    IF metadata = <<>> THEN [escaped |-> FALSE, batch |-> batch_products]
    ELSE LET product == Head(metadata)
             rest == Tail(metadata)
         IN  IF "id" \notin DOMAIN product
             THEN [escaped |-> TRUE, batch |-> batch_products]
             ELSE IF product.id \in existing_ids
             THEN StageS3(rest, existing_ids, objects, batch_products)
             ELSE IF \/ "image_path" \notin DOMAIN product
                     \/ ~UrlEmbeddable(objects, product.image_path)
                     \/ ~(RequiredKeys \subseteq DOMAIN product)
             THEN StageS3(rest, existing_ids, objects, batch_products)
             ELSE StageS3(rest, existing_ids, objects,
                    Append(batch_products,
                      [id |-> product.id,
                       embedding |-> Embedding(product.image_path),
                       metadata |->
                         [name |-> product.name,
                          category |-> product.category,
                          price |-> product.price,
                          description |-> product.description,
                          image_path |-> product.image_path,
                          image_url |-> ImageUrl(product.image_path),
                          brand |-> Get(product, "brand", "Unknown"),
                          rating |-> Get(product, "rating", 0)]]))

\* the placeholder metadata of scan_and_add_new_images
PlaceholderLocal(product_id, filename) ==
    [name |-> <<"Product ">> \o product_id,
     category |-> "Unknown",
     price |-> 0,
     description |-> <<"Product imported from image ">> \o filename,
     image_path |-> filename,
     brand |-> "Unknown",
     rating |-> 0]

\* the placeholder metadata of sync_new_images_to_s3
PlaceholderS3(product_id, filename) ==
    [name |-> <<"Product ">> \o product_id,
     category |-> "Unknown",
     price |-> 0,
     description |-> <<"Auto-generated entry for ">> \o filename,
     image_path |-> filename,
     image_url |-> ImageUrl(filename),
     brand |-> "Unknown",
     rating |-> 0]

HasSupportedSuffix(filename) ==
    LET low == Lower(filename)
    IN  \E k \in 1..Len(supported_formats) : EndsWith(low, supported_formats[k])

\* The loop of scan_and_add_new_images over os.listdir(images_dir), in the
\* order `listing`.
RECURSIVE StageScan(_, _, _, _)
StageScan(listing, existing_ids, files, new_products) ==
    IF listing = <<>> THEN new_products
    ELSE LET filename == Head(listing)
             product_id == SplitExt(filename)[1]
         IN  IF ~HasSupportedSuffix(filename) \/ product_id \in existing_ids
                \/ ~FileOf(files, filename).ok
             THEN StageScan(Tail(listing), existing_ids, files, new_products)
             ELSE StageScan(Tail(listing), existing_ids, files,
                    Append(new_products,
                      [id |-> product_id,
                       embedding |-> Embedding(filename),
                       metadata |-> PlaceholderLocal(product_id, filename)]))

\* The loop of sync_new_images_to_s3: [new_products, uploaded (file names put
\* in the bucket)].  uploadOk = FALSE: upload_image returns None.
RECURSIVE StageSyncS3(_, _, _, _, _, _)
StageSyncS3(listing, existing_ids, files, uploadOk, new_products, uploaded) ==
    IF listing = <<>> THEN [new_products |-> new_products, uploaded |-> uploaded]
    ELSE LET filename == Head(listing)
             name == SplitExt(filename)[1]
             ext == SplitExt(filename)[2]
             isImage == \E k \in 1..Len(supported_formats) :
                            supported_formats[k] = Lower(ext)
         IN  IF ~isImage \/ name \in existing_ids \/ ~uploadOk
             THEN StageSyncS3(Tail(listing), existing_ids, files, uploadOk,
                              new_products, uploaded)
             ELSE IF ~FileOf(files, filename).ok
             THEN StageSyncS3(Tail(listing), existing_ids, files, uploadOk,
                              new_products, uploaded \cup {filename})
             ELSE StageSyncS3(Tail(listing), existing_ids, files, uploadOk,
                    Append(new_products,
                      [id |-> name,
                       embedding |-> Embedding(filename),
                       metadata |-> PlaceholderS3(name, filename)]),
                    uploaded \cup {filename})

\* the record appended to products.json for a product
ManifestRecordOf(product_id, metadata) ==
    [id |-> product_id,
     name |-> metadata.name,
     category |-> metadata.category,
     price |-> metadata.price,
     description |-> metadata.description,
     image_path |-> metadata.image_path,
     brand |-> metadata.brand,
     rating |-> metadata.rating]

RECURSIVE ManifestRecordsOf(_)
ManifestRecordsOf(new_products) ==
    IF new_products = <<>> THEN <<>>
    ELSE <<ManifestRecordOf(Head(new_products).id, Head(new_products).metadata)>>
         \o ManifestRecordsOf(Tail(new_products))

\* a scan that leaves products.json as it found it
update_products_json_skipped(file, new_products) == file

\* update_products_json_with_new_images(new_products): the file after the call
update_products_json_with_new_images(file, new_products) ==
    [exists |-> TRUE,
     data |-> (IF file.exists THEN file.data ELSE <<>>) \o ManifestRecordsOf(new_products)]

\* the numbers add_uploaded_image_to_database collects from the existing ids
existing_numbers_of(results) ==
    {ParseInt(Split(results[i].id, "_")[2]).val :
        i \in {j \in 1..Len(results) :
                  /\ StartsWith(results[j].id, PRODUCT_)
                  /\ ParseInt(Split(results[j].id, "_")[2]).ok}}

RECURSIVE SetToSeq(_)
SetToSeq(S) ==
    IF S = {} THEN <<>>
    ELSE LET x == CHOOSE y \in S : TRUE IN <<x>> \o SetToSeq(S \ {x})

Orders(S) ==
    {l \in [1..Cardinality(S) -> S] :
        \A i, j \in 1..Cardinality(S) : i # j => l[i] # l[j]}

\* The orders os.listdir may return the directory in.  Files the loops skip
\* whatever their position (no image suffix, id already known) are listed last.
Listings(files, existing_ids) ==
    LET names == FileNames(files)
        cand == {f \in names : HasSupportedSuffix(f) /\ SplitExt(f)[1] \notin existing_ids}
    IN  {l \o SetToSeq(names \ cand) : l \in Orders(cand)}

\* What an operation did, kept for the properties.  clean: no index or
\* bucket failure was injected into it.  seq: the number of operations so far.
Outcome(op, staged, upserts, written, escaped, clean, ok) ==
    [seq |-> 0, op |-> op, staged |-> staged, upserts |-> upserts, written |-> written,
     escaped |-> escaped, clean |-> clean, ok |-> ok]

NoOutcome == Outcome("none", <<>>, 0, <<>>, FALSE, TRUE, TRUE)

\* load_products_from_local: [index, staged, upserts, written, escaped]
load_products_from_local(idx, sd, file, dir, scanOk, failAt) ==
    IF ~file.exists \/ ~dir.exists
    THEN [index |-> idx, staged |-> <<>>, upserts |-> 0, written |-> <<>>,
          escaped |-> FALSE]
    ELSE LET existing_products == get_all_products(idx, ScanLimit, scanOk)
             existing_ids == existing_ids_of(existing_products)
             st == StageLocal(file.data, existing_ids, dir.files, <<>>)
         IN  IF st.escaped \/ st.batch = <<>>
             THEN [index |-> idx, staged |-> StagedIds(st.batch), upserts |-> 0,
                   written |-> <<>>, escaped |-> st.escaped]
             ELSE LET b == add_products_batch(idx, sd, st.batch, DefaultBatchSize, failAt)
                  IN  [index |-> b.index, staged |-> StagedIds(st.batch),
                       upserts |-> b.upserts, written |-> b.written, escaped |-> FALSE]

\* load_products_from_s3: no metadata in the bucket falls back to the local loader
load_products_from_s3(idx, sd, file, dir, metadata, objects, scanOk, failAt) ==
    IF metadata = <<>>
    THEN load_products_from_local(idx, sd, file, dir, scanOk, failAt)
    ELSE LET existing_products == get_all_products(idx, ScanLimit, scanOk)
             existing_ids == existing_ids_of(existing_products)
             st == StageS3(metadata, existing_ids, objects, <<>>)
         IN  IF st.escaped \/ st.batch = <<>>
             THEN [index |-> idx, staged |-> StagedIds(st.batch), upserts |-> 0,
                   written |-> <<>>, escaped |-> st.escaped]
             ELSE LET b == add_products_batch(idx, sd, st.batch, DefaultBatchSize, failAt)
                  IN  [index |-> b.index, staged |-> StagedIds(st.batch),
                       upserts |-> b.upserts, written |-> b.written, escaped |-> FALSE]

\* scan_and_add_new_images without an S3 service: [index, file, staged, ...]
scan_and_add_new_images(idx, sd, file, dir, listing, scanOk, failAt) ==
    IF ~dir.exists
    THEN [index |-> idx, file |-> file, staged |-> <<>>, upserts |-> 0,
          written |-> <<>>]
    ELSE LET existing_products == get_all_products(idx, ScanLimit, scanOk)
             existing_ids == existing_ids_of(existing_products)
             new_products == StageScan(listing, existing_ids, dir.files, <<>>)
         IN  IF new_products = <<>>
             THEN [index |-> idx, file |-> file, staged |-> <<>>, upserts |-> 0,
                   written |-> <<>>]
             ELSE LET b == add_products_batch(idx, sd, new_products, DefaultBatchSize,
                                              failAt)
                  IN  [index |-> b.index,
                       file |-> update_products_json_with_new_images(file, new_products),
                       staged |-> StagedIds(new_products),
                       upserts |-> b.upserts, written |-> b.written]

\* sync_new_images_to_s3: [index, objects, staged, ...]
sync_new_images_to_s3(idx, sd, dir, objects, listing, uploadOk, scanOk, failAt) ==
    IF ~dir.exists
    THEN [index |-> idx, objects |-> objects, staged |-> <<>>, upserts |-> 0,
          written |-> <<>>]
    ELSE LET existing_products == get_all_products(idx, ScanLimit, scanOk)
             existing_ids == existing_ids_of(existing_products)
             st == StageSyncS3(listing, existing_ids, dir.files, uploadOk, <<>>, {})
             objects1 == {o \in objects : o.key \notin st.uploaded}
                         \cup {[key |-> f, ok |-> FileOf(dir.files, f).ok] :
                                  f \in st.uploaded}
         IN  IF st.new_products = <<>>
             THEN [index |-> idx, objects |-> objects1, staged |-> <<>>,
                   upserts |-> 0, written |-> <<>>]
             ELSE LET b == add_products_batch(idx, sd, st.new_products,
                                              DefaultBatchSize, failAt)
                  IN  [index |-> b.index, objects |-> objects1,
                       staged |-> StagedIds(st.new_products),
                       upserts |-> b.upserts, written |-> b.written]

\* the id add_uploaded_image_to_database generates from the existing products
next_product_id(existing_products) ==
    PRODUCT_ \o Format03d(SetMax(existing_numbers_of(existing_products), 0) + 1)

\* the name the uploaded file is saved under (lines 278-286)
upload_filename(product_id, uploaded_file) ==
    LET filename == IF uploaded_file.filename = <<>> THEN product_id \o JPG
                    ELSE uploaded_file.filename
        ext0 == Lower(SplitExt(filename)[2])
    IN  product_id \o (IF ext0 = <<>> THEN JPG ELSE ext0)

\* uploaded_file.save(image_path): the directory after the call
upload_save(dir, final_filename, uploaded_file) ==
    [exists |-> TRUE,
     files |-> {f \in dir.files : f.filename # final_filename}
               \cup {[filename |-> final_filename, ok |-> uploaded_file.ok]}]

\* the metadata of an uploaded product (lines 296-304)
upload_metadata(product_id, final_filename, product_info) ==
    [name |-> Get(product_info, "name", <<"Product ">> \o product_id),
     category |-> Get(product_info, "category", "Unknown"),
     price |-> Get(product_info, "price", 0),
     description |-> Get(product_info, "description", <<>>),
     image_path |-> final_filename,
     brand |-> Get(product_info, "brand", "Unknown"),
     rating |-> Get(product_info, "rating", 0)]

\* a writer that appends its record to what the file holds at the time of the
\* write (what a lock around read and write would give)
write_manifest_locked(file, products_data, product_data) ==
    [exists |-> TRUE,
     data |-> Append(IF file.exists THEN file.data ELSE <<>>, product_data)]

\* products_data.append(product_data); json.dump(products_data, f) on the file
\* opened with 'w': the file becomes what was read plus the record, whatever
\* it held when it was opened.
write_manifest(file, products_data, product_data) ==
    [exists |-> TRUE, data |-> Append(products_data, product_data)]

\* add_uploaded_image_to_database: [index, file, dir, ret, product_id]
add_uploaded_image_to_database(idx, sd, file, dir, uploaded_file, product_info, scanOk, dbOk) ==
    LET existing_products == get_all_products(idx, ScanLimit, scanOk)
        product_id == next_product_id(existing_products)
        final_filename == upload_filename(product_id, uploaded_file)
        dir1 == upload_save(dir, final_filename, uploaded_file)
        metadata == upload_metadata(product_id, final_filename, product_info)
        r == add_product(idx, sd, product_id, Embedding(final_filename), metadata, dbOk)
    IN  IF \E i \in 1..Len(existing_products) : IsPyInt(existing_products[i].id)
        THEN [index |-> idx, file |-> file, dir |-> dir, ret |-> FALSE,
              product_id |-> product_id]
        ELSE IF ~uploaded_file.ok
        THEN [index |-> idx, file |-> file, dir |-> dir1, ret |-> FALSE,
              product_id |-> product_id]
        ELSE IF ~r.ret
        THEN [index |-> idx, file |-> file, dir |-> dir1, ret |-> FALSE,
              product_id |-> product_id]
        ELSE [index |-> r.index,
              file |-> write_manifest(file, IF file.exists THEN file.data ELSE <<>>,
                                      ManifestRecordOf(product_id, metadata)),
              dir |-> dir1, ret |-> TRUE, product_id |-> product_id]

-----------------------------------------------------------------------------
(* The catalogs the model starts from *)

Rec(id, name, category, ext) ==
    [id |-> id, name |-> <<name>>, category |-> category, price |-> 10,
     description |-> <<"text">>, image_path |-> id \o ext, brand |-> "Acme",
     rating |-> 4]

RecP1 == Rec(P1, "Red Mug", "Home", JPG)
RecP01 == Rec(P01, "Blue Mug", "Home", PNG)
RecP2 == Rec(P2, "Lamp", "Lighting", JPG)
RecPABC == Rec(PABC, "Chair", "Home", JPG)
RecMUG == Rec(MUG, "Mug", "Kitchen", JPG)
\* a record that lacks the 'id' key
RecNoId == [name |-> <<"Nameless">>, category |-> "Home", price |-> 10,
            description |-> <<"text">>, image_path |-> P2 \o JPG]

File(name, ext, ok) == [filename |-> name \o ext, ok |-> ok]

Obj(name, ext, ok) == [key |-> name \o ext, ok |-> ok]

NOTES == <<"n", "o", "t", "e", "s">>

Catalog(manifest, hasManifest, files, hasDir, service, metadata, objects) ==
    [file |-> [exists |-> hasManifest, data |-> manifest],
     dir |-> [exists |-> hasDir, files |-> files],
     service |-> service, metadata |-> metadata, objects |-> objects]

InitCatalogs ==
    {Catalog(<<RecP1, RecP2>>, TRUE,
             {File(P1, JPG, TRUE), File(P2, JPG, TRUE), File(MUG, JPG, TRUE)}, TRUE,
             FALSE, <<>>, {}),
     Catalog(<<RecP1, RecP01>>, TRUE,
             {File(P1, JPG, TRUE), File(P01, PNG, TRUE)}, TRUE, FALSE, <<>>, {}),
     Catalog(<<RecPABC, RecP2>>, TRUE,
             {File(PABC, JPG, TRUE), File(P2, JPG, TRUE)}, TRUE, FALSE, <<>>, {}),
     Catalog(<<RecNoId, RecP2>>, TRUE,
             {File(P1, JPG, FALSE), File(P2, JPG, TRUE), File(NOTES, TXT, TRUE)}, TRUE,
             FALSE, <<>>, {}),
     Catalog(<<>>, FALSE,
             {File(MUG, JPG, TRUE), File(PABC, JPG, TRUE)}, TRUE, FALSE, <<>>, {}),
     Catalog(<<RecP1, RecP2>>, TRUE, {}, FALSE, FALSE, <<>>, {}),
     Catalog(<<RecP2>>, TRUE, {File(P2, JPG, TRUE)}, TRUE,
             TRUE, <<RecP1, RecMUG>>, {Obj(P1, JPG, TRUE), Obj(MUG, JPG, TRUE)}),
     Catalog(<<RecMUG, RecP1>>, TRUE,
             {File(MUG, JPG, TRUE), File(P1, JPG, TRUE)}, TRUE, TRUE, <<>>, {}),
     Catalog(<<>>, FALSE, {File(P1, JPG, TRUE)}, TRUE,
             TRUE, <<RecPABC, RecP2>>, {Obj(PABC, JPG, TRUE), Obj(P2, JPG, FALSE)})}

UploadedFiles ==
    {[filename |-> <<"u", ".", "P", "N", "G">>, ok |-> TRUE],
     [filename |-> <<"u", ".", "p", "n", "g">>, ok |-> FALSE],
     [filename |-> <<>>, ok |-> TRUE]}

ProductInfo == [name |-> <<"New">>, category |-> "Home", price |-> 5,
                description |-> <<>>, brand |-> "Unknown", rating |-> 0]

UpdatedMetadata == [name |-> <<"Renamed">>]

\* Injected failures of one operation: none, the index scan raises, the index
\* write raises.
Faults == {"none", "scan", "write"}

ScanOk(fault) == fault # "scan"

FailAt(fault) == IF fault = "write" THEN 1 ELSE 0

\* The parts of the state a specification does not use stay at these values.
NoEnc == [p \in Procs |-> {}]

\* service_manager.py after import: no instance, nothing initialised, no
\* global, the class lock free.  None is 0 for the two resources.
NoSm == [instance |-> FALSE, initialized |-> FALSE, lock |-> 0,
         service_manager |-> FALSE, config |-> FALSE,
         clip_model |-> 0, vector_db |-> 0, model_lock |-> 0, db_lock |-> 0]

NoTh == [t \in Threads |-> [pc |-> "idle", call |-> "none", holds |-> <<>>, made |-> 0]]

NoBuilt == [vector_db |-> 0, clip_model |-> 0, synced |-> 0]

NoRun == [r \in Procs |-> [pc |-> "idle", batch |-> <<>>]]

\* no environment variable set, create_app not called
NoEnv == [k \in {} |-> <<>>]

NoApp == [phase |-> "down"]

IdleStartup ==
    /\ env = NoEnv
    /\ app = NoApp
    /\ collection_exists = TRUE

-----------------------------------------------------------------------------
(* Catalog operations, each run to completion by the server process *)

\* the process that serves the catalog operations
Server == CHOOSE p \in Procs : \A q \in Procs : p <= q

Record(o) ==
    /\ last.seq < MaxOps
    /\ last' = [o EXCEPT !.seq = last.seq + 1]
    /\ ingested' = ingested \cup SeqToSet(o.written)

LoadLocal ==
    /\ UNCHANGED notCatalog
    /\ \E fault \in Faults :
        \E r \in {load_products_from_local(index, seed[Server], products_file,
                                          images_dir, ScanOk(fault), FailAt(fault))} :
            /\ index' = r.index
            /\ Record(Outcome("load_local", r.staged, r.upserts, r.written,
                              r.escaped, fault = "none", ~r.escaped))
            /\ UNCHANGED <<products_file, images_dir, s3_service, s3_metadata,
                           s3_objects, seed>>

LoadS3 ==
    /\ UNCHANGED notCatalog
    /\ s3_service
    /\ \E fault \in Faults :
        \E r \in {load_products_from_s3(index, seed[Server], products_file, images_dir,
                                       s3_metadata, s3_objects, ScanOk(fault),
                                       FailAt(fault))} :
            /\ index' = r.index
            /\ Record(Outcome("load_s3", r.staged, r.upserts, r.written,
                              r.escaped, fault = "none", ~r.escaped))
            /\ UNCHANGED <<products_file, images_dir, s3_service, s3_metadata,
                           s3_objects, seed>>

ScanLocal ==
    /\ UNCHANGED notCatalog
    /\ \E fault \in Faults :
        \E listing \in Listings(images_dir.files,
                     existing_ids_of(get_all_products(index, ScanLimit, ScanOk(fault)))) :
            \E r \in {scan_and_add_new_images(index, seed[Server], products_file,
                         images_dir, listing, ScanOk(fault), FailAt(fault))} :
                /\ Len(r.file.data) <= MaxManifest
                /\ index' = r.index
                /\ products_file' = r.file
                /\ Record(Outcome("scan_local", r.staged, r.upserts, r.written, FALSE,
                                  fault = "none", TRUE))
                /\ UNCHANGED <<images_dir, s3_service, s3_metadata, s3_objects, seed>>

SyncS3 ==
    /\ UNCHANGED notCatalog
    /\ s3_service
    /\ \E fault \in Faults \cup {"upload"} :
        \E listing \in Listings(images_dir.files,
                     existing_ids_of(get_all_products(index, ScanLimit, ScanOk(fault)))) :
            \E r \in {sync_new_images_to_s3(index, seed[Server], images_dir, s3_objects,
                         listing, fault # "upload", ScanOk(fault), FailAt(fault))} :
                /\ index' = r.index
                /\ s3_objects' = r.objects
                /\ Record(Outcome("sync_s3", r.staged, r.upserts, r.written, FALSE,
                                  fault = "none", TRUE))
                /\ UNCHANGED <<products_file, images_dir, s3_service, s3_metadata,
                               seed>>

AddUploaded ==
    /\ UNCHANGED notCatalog
    /\ \E fault \in Faults, uploaded_file \in UploadedFiles :
        \E r \in {add_uploaded_image_to_database(index, seed[Server], products_file,
                     images_dir, uploaded_file, ProductInfo, ScanOk(fault),
                     fault # "write")} :
            /\ ParseInt(Split(r.product_id, "_")[2]).val <= MaxNum
            /\ Len(r.file.data) <= MaxManifest
            /\ index' = r.index
            /\ products_file' = r.file
            /\ images_dir' = r.dir
            /\ Record(Outcome("add_uploaded", <<r.product_id>>,
                              IF r.ret THEN 1 ELSE 0,
                              IF r.ret THEN <<r.product_id>> ELSE <<>>, FALSE,
                              fault = "none", r.ret))
            /\ UNCHANGED <<s3_service, s3_metadata, s3_objects, seed>>

UpdateMetadata ==
    /\ UNCHANGED notCatalog
    /\ \E product_id \in existing_ids_of(get_all_products(index, ScanLimit, TRUE)),
          dbOk \in BOOLEAN :
        \E r \in {update_product_metadata(index, seed[Server], product_id,
                                         UpdatedMetadata, dbOk)} :
            /\ index' = r.index
            /\ Record(Outcome("update_metadata", <<product_id>>, 0, <<>>, FALSE,
                              dbOk, r.ret))
            /\ UNCHANGED << products_file, images_dir, s3_service,
                           s3_metadata, s3_objects, seed>>

\* The process exits and a new one is started: a new hash randomisation.
Restart ==
    /\ UNCHANGED notCatalog
    /\ \E sd \in Seeds \ {seed[Server]} : seed' = [seed EXCEPT ![Server] = sd]
    /\ UNCHANGED <<histVars, storeVars>>

Init ==
    /\ index = EmptyIndex
    /\ \E c \in InitCatalogs :
        /\ products_file = c.file
        /\ images_dir = c.dir
        /\ s3_service = c.service
        /\ s3_metadata = c.metadata
        /\ s3_objects = c.objects
    /\ seed = [p \in Procs |-> 0]
    /\ ingested = {}
    /\ last = NoOutcome
    /\ enc = NoEnc
    /\ sm = NoSm
    /\ th = NoTh
    /\ built = NoBuilt
    /\ lostInstance = FALSE
    /\ run = NoRun
    /\ IdleStartup

Next ==
    \/ LoadLocal
    \/ LoadS3
    \/ ScanLocal
    \/ SyncS3
    \/ AddUploaded
    \/ UpdateMetadata
    \/ Restart

Spec == Init /\ [][Next]_vars

-----------------------------------------------------------------------------
(* The identifier codec on its own: processes that convert ids              *)

\* the ids handed to the conversion
CodecIds == {P1, P01, P1X, PABC, PNONE, PNEG, PBIG, MUG, CAFE, EMPTY}

notCodec == <<index, products_file, images_dir, s3_service, s3_metadata, s3_objects,
              ingested, last, sm, th, built, lostInstance, run,
              env, app, collection_exists>>

NoCatalog == Catalog(<<>>, FALSE, {}, FALSE, FALSE, <<>>, {})

IdleCatalog ==
    /\ index = EmptyIndex
    /\ products_file = NoCatalog.file
    /\ images_dir = NoCatalog.dir
    /\ s3_service = NoCatalog.service
    /\ s3_metadata = NoCatalog.metadata
    /\ s3_objects = NoCatalog.objects
    /\ ingested = {}
    /\ last = NoOutcome

IdleManager ==
    /\ sm = NoSm
    /\ th = NoTh
    /\ built = NoBuilt
    /\ lostInstance = FALSE

\* Process p converts one id, as add_product, update_product_metadata,
\* add_products_batch and get_product_by_id do before they touch the index.
Encode(p) ==
    /\ Cardinality(enc[p]) < MaxEnc
    /\ \E product_id \in CodecIds :
        \E r \in {numeric_id(seed[p], product_id)} :
            enc' = [enc EXCEPT ![p] = @ \cup {[id |-> product_id, ok |-> r.ok,
                                              val |-> IF r.ok THEN r.val ELSE 0,
                                              wide |-> r.wide]}]
    /\ UNCHANGED seed
    /\ UNCHANGED notCodec

\* Process p is started anew: the interpreter draws a hash randomisation.
StartProcess(p) ==
    /\ \E sd \in Seeds : seed' = [seed EXCEPT ![p] = sd]
    /\ enc' = [enc EXCEPT ![p] = {}]
    /\ UNCHANGED notCodec

InitCodec ==
    /\ IdleCatalog
    /\ IdleManager
    /\ run = NoRun
    /\ enc = NoEnc
    /\ seed \in [Procs -> Seeds]
    /\ IdleStartup

NextCodec ==
    \/ \E p \in Procs : Encode(p)
    \/ \E p \in Procs : StartProcess(p)

SpecCodec == InitCodec /\ [][NextCodec]_vars

-----------------------------------------------------------------------------
(* services/service_manager.py: threads on the lazily built singletons      *)
(* Each action is one step between two points where another thread can run. *)
(* The constructors are taken to succeed; no manifest and no bucket are     *)
(* configured, so the sync that follows the index construction changes no  *)
(* store and is counted in built.synced.                                    *)

\* the thread that runs initialize_services(config), as create_app does
Startup == CHOOSE t \in Threads : \A u \in Threads : t <= u

Calls == {"get_vector_db", "get_clip_model"}

notManager == <<index, products_file, images_dir, s3_service, s3_metadata, s3_objects,
                seed, ingested, last, enc, run, env, app, collection_exists>>

\* where the caller of get_service_manager() goes on with the manager
AfterGsm(call) ==
    CASE call = "initialize_services" -> "initialize"
      [] call = "get_vector_db" -> "db_check"
      [] OTHER -> "model_check"

Goto(t, pc) == th' = [th EXCEPT ![t].pc = pc]

\* a request thread enters get_vector_db() or get_clip_model()
Call(t) ==
    /\ th[t].pc = "idle"
    /\ \E c \in Calls : th' = [th EXCEPT ![t].pc = "gsm", ![t].call = c]
    /\ UNCHANGED <<sm, built, lostInstance>>
    /\ UNCHANGED notManager

\* get_service_manager(): if _service_manager is None
get_service_manager(t) ==
    /\ th[t].pc = "gsm"
    /\ IF sm.service_manager THEN Goto(t, AfterGsm(th[t].call)) ELSE Goto(t, "new")
    /\ UNCHANGED <<sm, built, lostInstance>>
    /\ UNCHANGED notManager

\* __new__: the first, unlocked test of cls._instance
NewCheck(t) ==
    /\ th[t].pc = "new"
    /\ IF sm.instance THEN Goto(t, "init") ELSE Goto(t, "new_lock")
    /\ UNCHANGED <<sm, built, lostInstance>>
    /\ UNCHANGED notManager

\* __new__: with cls._lock
NewLock(t) ==
    /\ th[t].pc = "new_lock"
    /\ sm.lock = 0
    /\ sm' = [sm EXCEPT !.lock = t]
    /\ Goto(t, "new_locked")
    /\ UNCHANGED <<built, lostInstance>>
    /\ UNCHANGED notManager

\* __new__: the second test, the creation, the release of cls._lock
NewLocked(t) ==
    /\ th[t].pc = "new_locked"
    /\ sm' = [sm EXCEPT !.instance = TRUE, !.lock = 0]
    /\ Goto(t, "init")
    /\ UNCHANGED <<built, lostInstance>>
    /\ UNCHANGED notManager

\* __init__: if ServiceManager._initialized: return
InitCheck(t) ==
    /\ th[t].pc = "init"
    /\ IF sm.initialized THEN Goto(t, "assign") ELSE Goto(t, "init_body")
    /\ UNCHANGED <<sm, built, lostInstance>>
    /\ UNCHANGED notManager

\* __init__: the attributes are set to None and the locks to new locks
InitBody(t) ==
    /\ th[t].pc = "init_body"
    /\ sm' = [sm EXCEPT !.clip_model = 0, !.vector_db = 0, !.config = FALSE,
                        !.model_lock = @ + 1, !.db_lock = @ + 1]
    /\ lostInstance' = (lostInstance \/ sm.clip_model # 0 \/ sm.vector_db # 0)
    /\ Goto(t, "init_mark")
    /\ UNCHANGED built
    /\ UNCHANGED notManager

\* __init__: ServiceManager._initialized = True
InitMark(t) ==
    /\ th[t].pc = "init_mark"
    /\ sm' = [sm EXCEPT !.initialized = TRUE]
    /\ Goto(t, "assign")
    /\ UNCHANGED <<built, lostInstance>>
    /\ UNCHANGED notManager

\* get_service_manager(): _service_manager = ServiceManager(); return it
Assign(t) ==
    /\ th[t].pc = "assign"
    /\ sm' = [sm EXCEPT !.service_manager = TRUE]
    /\ Goto(t, AfterGsm(th[t].call))
    /\ UNCHANGED <<built, lostInstance>>
    /\ UNCHANGED notManager

\* initialize(config): self._config = config
Initialize(t) ==
    /\ th[t].pc = "initialize"
    /\ sm' = [sm EXCEPT !.config = TRUE]
    /\ th' = [th EXCEPT ![t].pc = "idle", ![t].call = "none"]
    /\ UNCHANGED <<built, lostInstance>>
    /\ UNCHANGED notManager

\* vector_db: the first, unlocked test of self._vector_db
DbCheck(t) ==
    /\ th[t].pc = "db_check"
    /\ IF sm.vector_db # 0
       THEN th' = [th EXCEPT ![t].pc = "idle", ![t].call = "none"]
       ELSE Goto(t, "db_lock")
    /\ UNCHANGED <<sm, built, lostInstance>>
    /\ UNCHANGED notManager

\* vector_db: with self._db_lock, the lock object the attribute names now
DbLock(t) ==
    /\ th[t].pc = "db_lock"
    /\ \A u \in Threads : th[u].holds # <<"db", sm.db_lock>>
    /\ th' = [th EXCEPT ![t].pc = "db_locked", ![t].holds = <<"db", sm.db_lock>>]
    /\ UNCHANGED <<sm, built, lostInstance>>
    /\ UNCHANGED notManager

\* vector_db: the second test; _initialize_vector_db raises without a
\* configuration, else QdrantVectorDB(...) is constructed
DbLocked(t) ==
    /\ th[t].pc = "db_locked"
    /\ IF sm.vector_db # 0 \/ ~sm.config
       THEN /\ th' = [th EXCEPT ![t].pc = "idle", ![t].call = "none", ![t].holds = <<>>]
            /\ UNCHANGED built
       ELSE /\ built.vector_db < MaxBuilds
            /\ built' = [built EXCEPT !.vector_db = @ + 1]
            /\ th' = [th EXCEPT ![t].pc = "db_assign", ![t].made = built.vector_db + 1]
    /\ UNCHANGED <<sm, lostInstance>>
    /\ UNCHANGED notManager

\* _initialize_vector_db: self._vector_db = the instance
DbAssign(t) ==
    /\ th[t].pc = "db_assign"
    /\ sm' = [sm EXCEPT !.vector_db = th[t].made]
    /\ lostInstance' = (lostInstance \/ sm.vector_db # 0)
    /\ th' = [th EXCEPT ![t].pc = "db_sync", ![t].made = 0]
    /\ UNCHANGED built
    /\ UNCHANGED notManager

\* _initialize_vector_db: if self._clip_model is not None, load_sample_products
\* is called; then the lock is released
DbSync(t) ==
    /\ th[t].pc = "db_sync"
    /\ built' = IF sm.clip_model # 0 THEN [built EXCEPT !.synced = @ + 1] ELSE built
    /\ th' = [th EXCEPT ![t].pc = "idle", ![t].call = "none", ![t].holds = <<>>]
    /\ UNCHANGED <<sm, lostInstance>>
    /\ UNCHANGED notManager

\* clip_model: the first, unlocked test of self._clip_model
ModelCheck(t) ==
    /\ th[t].pc = "model_check"
    /\ IF sm.clip_model # 0
       THEN th' = [th EXCEPT ![t].pc = "idle", ![t].call = "none"]
       ELSE Goto(t, "model_lock")
    /\ UNCHANGED <<sm, built, lostInstance>>
    /\ UNCHANGED notManager

\* clip_model: with self._model_lock
ModelLock(t) ==
    /\ th[t].pc = "model_lock"
    /\ \A u \in Threads : th[u].holds # <<"model", sm.model_lock>>
    /\ th' = [th EXCEPT ![t].pc = "model_locked", ![t].holds = <<"model", sm.model_lock>>]
    /\ UNCHANGED <<sm, built, lostInstance>>
    /\ UNCHANGED notManager

\* clip_model: the second test; _initialize_clip_model raises without a
\* configuration, else CLIPImageEncoder(...) is constructed
ModelLocked(t) ==
    /\ th[t].pc = "model_locked"
    /\ IF sm.clip_model # 0 \/ ~sm.config
       THEN /\ th' = [th EXCEPT ![t].pc = "idle", ![t].call = "none", ![t].holds = <<>>]
            /\ UNCHANGED built
       ELSE /\ built.clip_model < MaxBuilds
            /\ built' = [built EXCEPT !.clip_model = @ + 1]
            /\ th' = [th EXCEPT ![t].pc = "model_assign", ![t].made = built.clip_model + 1]
    /\ UNCHANGED <<sm, lostInstance>>
    /\ UNCHANGED notManager

\* _initialize_clip_model: self._clip_model = the instance; the lock is released
ModelAssign(t) ==
    /\ th[t].pc = "model_assign"
    /\ sm' = [sm EXCEPT !.clip_model = th[t].made]
    /\ lostInstance' = (lostInstance \/ sm.clip_model # 0)
    /\ th' = [th EXCEPT ![t].pc = "idle", ![t].call = "none", ![t].holds = <<>>,
                        ![t].made = 0]
    /\ UNCHANGED built
    /\ UNCHANGED notManager

\* The module is imported and the startup thread has entered
\* initialize_services(config); the request threads are about to call.
InitSingleton ==
    /\ IdleCatalog
    /\ seed = [p \in Procs |-> 0]
    /\ enc = NoEnc
    /\ run = NoRun
    /\ sm = NoSm
    /\ built = NoBuilt
    /\ lostInstance = FALSE
    /\ th = [NoTh EXCEPT ![Startup].pc = "gsm", ![Startup].call = "initialize_services"]
    /\ IdleStartup

NextSingleton ==
    \/ \E t \in Threads : Call(t)
    \/ \E t \in Threads : get_service_manager(t)
    \/ \E t \in Threads : NewCheck(t)
    \/ \E t \in Threads : NewLock(t)
    \/ \E t \in Threads : NewLocked(t)
    \/ \E t \in Threads : InitCheck(t)
    \/ \E t \in Threads : InitBody(t)
    \/ \E t \in Threads : InitMark(t)
    \/ \E t \in Threads : Assign(t)
    \/ \E t \in Threads : Initialize(t)
    \/ \E t \in Threads : DbCheck(t)
    \/ \E t \in Threads : DbLock(t)
    \/ \E t \in Threads : DbLocked(t)
    \/ \E t \in Threads : DbAssign(t)
    \/ \E t \in Threads : DbSync(t)
    \/ \E t \in Threads : ModelCheck(t)
    \/ \E t \in Threads : ModelLock(t)
    \/ \E t \in Threads : ModelLocked(t)
    \/ \E t \in Threads : ModelAssign(t)

SpecSingleton == InitSingleton /\ [][NextSingleton]_vars

-----------------------------------------------------------------------------
(* Two manifest syncs that overlap, each in its own server process          *)

RecCAFE == Rec(CAFE, "Espresso", "Kitchen", JPG)

ConcCatalogs ==
    {Catalog(<<RecP2, RecMUG>>, TRUE,
             {File(P2, JPG, TRUE), File(MUG, JPG, TRUE)}, TRUE, FALSE, <<>>, {}),
     Catalog(<<RecP1, RecP2>>, TRUE,
             {File(P1, JPG, TRUE), File(P2, JPG, TRUE)}, TRUE, FALSE, <<>>, {}),
     Catalog(<<RecCAFE, RecP1>>, TRUE,
             {File(CAFE, JPG, TRUE)}, TRUE, FALSE, <<>>, {})}

notRun == <<products_file, images_dir, s3_service, s3_metadata, s3_objects,
            seed, last, enc, sm, th, built, lostInstance,
            env, app, collection_exists>>

\* load_products_from_local up to the staging loop's end: the existing ids are
\* read and the new records staged
RunStage(r) ==
    /\ run[r].pc = "idle"
    /\ products_file.exists /\ images_dir.exists
    /\ \E st \in {StageLocal(products_file.data,
                             existing_ids_of(get_all_products(index, ScanLimit, TRUE)),
                             images_dir.files, <<>>)} :
        run' = [run EXCEPT ![r] = [pc |-> IF st.escaped \/ st.batch = <<>>
                                          THEN "done" ELSE "staged",
                                   batch |-> st.batch]]
    /\ UNCHANGED <<index, ingested>>
    /\ UNCHANGED notRun

\* load_products_from_local from add_products_batch(batch_products) on
RunInsert(r) ==
    /\ run[r].pc = "staged"
    /\ \E b \in {add_products_batch(index, seed[r], run[r].batch, DefaultBatchSize, 0)} :
        /\ index' = b.index
        /\ ingested' = ingested \cup SeqToSet(b.written)
    /\ run' = [run EXCEPT ![r].pc = "done"]
    /\ UNCHANGED notRun

\* the next sync of the process (the route or the startup of a new worker)
RunAgain(r) ==
    /\ run[r].pc = "done"
    /\ run[r].batch # <<>>
    /\ run' = [run EXCEPT ![r] = [pc |-> "idle", batch |-> <<>>]]
    /\ UNCHANGED <<index, ingested>>
    /\ UNCHANGED notRun

InitConc ==
    /\ index = EmptyIndex
    /\ \E c \in ConcCatalogs :
        /\ products_file = c.file
        /\ images_dir = c.dir
        /\ s3_service = c.service
        /\ s3_metadata = c.metadata
        /\ s3_objects = c.objects
    /\ seed \in [Procs -> Seeds]
    /\ ingested = {}
    /\ last = NoOutcome
    /\ enc = NoEnc
    /\ IdleManager
    /\ run = NoRun
    /\ IdleStartup

NextConc ==
    \/ \E r \in Procs : RunStage(r)
    \/ \E r \in Procs : RunInsert(r)
    \/ \E r \in Procs : RunAgain(r)

SpecConc == InitConc /\ [][NextConc]_vars

-----------------------------------------------------------------------------
(* The index read back page by page: a catalog that grows one product at   *)
(* a time, and listings of it                                              *)

MaxPoints == 101     \* products inserted into the listed index

\* the limits the callers pass: a status listing, one more than a page, a
\* mid-size page, the scans
Limits == {5, 101, 120, ScanLimit}

notPaging == <<products_file, images_dir, s3_service, s3_metadata, s3_objects,
               seed, ingested, enc, sm, th, built, lostInstance, run,
               env, app, collection_exists>>

\* The next product of the catalog is inserted: product_001, product_002, ...
InsertNext ==
    /\ Cardinality(DOMAIN index) < MaxPoints
    /\ \E product_id \in {PRODUCT_ \o Format03d(Cardinality(DOMAIN index) + 1)} :
        \E r \in {add_product(index, seed[Server], product_id, <<1>>,
                              [name |-> product_id], TRUE)} :
            /\ index' = r.index
            /\ last' = Outcome("add_product", <<product_id>>, 1, <<product_id>>,
                               FALSE, TRUE, r.ret)
    /\ UNCHANGED notPaging

\* A caller lists the index.
ListAll ==
    /\ \E limit \in Limits :
        \E r \in {get_all_products(index, limit, TRUE)} :
            last' = [op |-> "get_all_products", limit |-> limit, results |-> r]
    /\ UNCHANGED index
    /\ UNCHANGED notPaging

InitPaging ==
    /\ IdleCatalog
    /\ IdleManager
    /\ run = NoRun
    /\ enc = NoEnc
    /\ seed = [p \in Procs |-> 0]
    /\ IdleStartup

NextPaging ==
    \/ InsertNext
    \/ ListAll

SpecPaging == InitPaging /\ [][NextPaging]_vars

-----------------------------------------------------------------------------
(* QdrantVectorDB point by point: add, delete, get and search              *)

HexDigits == {Digits[i] : i \in 1..10} \cup {"a", "b", "c", "d", "e", "f"}
                                       \cup {"A", "B", "C", "D", "E", "F"}

\* a string Qdrant accepts as a point id: a hyphenated UUID
IsUuid(s) ==
    /\ Len(s) = 36
    /\ \A i \in 1..36 : IF i \in {9, 14, 19, 24} THEN s[i] = "-" ELSE s[i] \in HexDigits

UUID1 == <<"1", "2", "3", "e", "4", "5", "6", "7", "-", "e", "8", "9", "b", "-",
           "1", "2", "d", "3", "-", "a", "4", "5", "6", "-",
           "4", "2", "6", "6", "1", "4", "1", "7", "4", "0", "0", "0">>

\* client.delete(points_selector=ids): an id is an unsigned integer or a UUID
\* string, anything else is refused; the points with the listed ids go.
ValidSelector(ids) == \A i \in 1..Len(ids) : IsPyInt(ids[i]) \/ IsUuid(ids[i])

DeletePoints(idx, ids) ==
    [n \in {m \in DOMAIN idx : \A i \in 1..Len(ids) : ids[i] # PyInt(m)} |-> idx[n]]

\* delete_product(product_id): [index, ret (bool)].  The id is handed to the
\* client as it is.
delete_product(idx, product_id, dbOk) ==
    IF ~dbOk \/ ~ValidSelector(<<product_id>>)
    THEN [index |-> idx, ret |-> FALSE]
    ELSE [index |-> DeletePoints(idx, <<product_id>>), ret |-> TRUE]

\* Embeddings are unit vectors in a plane, named by their angle in degrees.
\* Scores are cosines in units of 1/10000.
Vec(deg) == <<"deg", deg>>

CosDeg(d) ==
    CASE d = 0 -> 10000
      [] d = 45 -> 7071
      [] d = 90 -> 0
      [] d = 135 -> -7071
      [] d = 180 -> -10000

Cosine(u, v) == CosDeg(IF u[2] >= v[2] THEN u[2] - v[2] ELSE v[2] - u[2])

\* client.search(query_vector, limit, score_threshold, query_filter): the
\* matching points by descending score, at most `limit` of them; the order of
\* points with equal scores is not fixed, so this is the set of possible answers.
\* query_filter is <<>> (None) or <<value>>: the payload key "category" must be
\* there and equal the value.
Search(idx, query, limit, score_threshold, query_filter) ==
    LET hits == {n \in DOMAIN idx :
                    /\ Cosine(query, idx[n].vector) >= score_threshold
                    /\ query_filter # <<>> =>
                          /\ "category" \in DOMAIN idx[n].payload
                          /\ idx[n].payload["category"] = query_filter[1]}
        ranked == {l \in Orders(hits) :
                      \A i \in 1..(Len(l) - 1) :
                          Cosine(query, idx[l[i]].vector) >= Cosine(query, idx[l[i + 1]].vector)}
    IN  {SubSeq(l, 1, Min(limit, Len(l))) : l \in ranked}

RECURSIVE ScoredResults(_, _, _)
ScoredResults(idx, query, ids) ==
    IF ids = <<>> THEN <<>>
    ELSE <<[id |-> ReportedId(idx, Head(ids)),
            score |-> Cosine(query, idx[Head(ids)].vector),
            metadata |-> idx[Head(ids)].payload]>>
         \o ScoredResults(idx, query, Tail(ids))

\* search_similar that builds no filter condition
search_similar_nofilter(idx, query, limit, score_threshold, category_filter, dbOk) ==
    IF ~dbOk \/ limit < 1 THEN {<<>>}
    ELSE {ScoredResults(idx, query, l) :
            l \in Search(idx, query, limit, score_threshold, <<>>)}

\* search_similar that passes no score_threshold (every cosine is >= -1)
search_similar_nothreshold(idx, query, limit, score_threshold, category_filter, dbOk) ==
    IF ~dbOk \/ limit < 1 THEN {<<>>}
    ELSE {ScoredResults(idx, query, l) :
            l \in Search(idx, query, limit, -10000,
                         IF category_filter = "" THEN <<>> ELSE <<category_filter>>)}

\* search_similar(query_embedding, limit, score_threshold, category_filter):
\* the lists it may return.  An empty filter string is no filter; the client
\* refuses a limit below 1, and every exception gives [].
search_similar(idx, query, limit, score_threshold, category_filter, dbOk) ==
    IF ~dbOk \/ limit < 1 THEN {<<>>}
    ELSE {ScoredResults(idx, query, l) :
            l \in Search(idx, query, limit, score_threshold,
                         IF category_filter = "" THEN <<>> ELSE <<category_filter>>)}

\* round(score, 3) on scores in units of 1/10000
Round3(score) == ((score + 5) \div 10) * 10

\* one entry of format_search_results: the image reference is the payload's
\* image_url when it is there and not empty, else the last component of
\* image_path under /api/images/
FormatResult(result) ==
    LET md == result.metadata
        parts == Split(md.image_path, "/")
    IN  [id |-> result.id,
         similarity_score |-> Round3(result.score),
         name |-> md.name,
         category |-> md.category,
         price |-> md.price,
         description |-> md.description,
         image_url |-> IF "image_url" \in DOMAIN md /\ md.image_url # <<>>
                       THEN md.image_url
                       ELSE <<"/api/images/">> \o parts[Len(parts)],
         brand |-> Get(md, "brand", "Unknown"),
         rating |-> Get(md, "rating", 0)]

\* a formatter that lists the entries last hit first
format_search_results_reversed(results) ==
    [i \in 1..Len(results) |-> FormatResult(results[Len(results) + 1 - i])]

\* format_search_results(results) of api/routes.py
format_search_results(results) ==
    [i \in 1..Len(results) |-> FormatResult(results[i])]

\* The products handed to add_product, each with its embedding.
IndexProduct(id, deg, category) ==
    [id |-> id, embedding |-> Vec(deg),
     metadata |-> [name |-> id, category |-> category, price |-> 10,
                   description |-> <<"text">>, image_path |-> id \o JPG]]

\* a product as the S3 loader stores it: image_path as the manifest gives it
\* and the URL of the object
IndexProductS3(id, deg, category, dir, image_url) ==
    [id |-> id, embedding |-> Vec(deg),
     metadata |-> [name |-> id, category |-> category, price |-> 10,
                   description |-> <<"text">>, image_path |-> dir \o id \o JPG,
                   image_url |-> image_url]]

IMG_DIR == <<"i", "m", "g", "/">>

IndexProducts ==
    {IndexProduct(P1, 0, "Home"),
     IndexProductS3(P2, 45, "home", IMG_DIR, <<>>),
     IndexProductS3(MUG, 90, "Lighting", <<>>, ImageUrl(MUG \o JPG)),
     IndexProduct(UUID1, 180, "Home"),
     IndexProduct(PABC, 45, "Home")}

Queries == {Vec(0), Vec(45)}
SearchLimits == {0, 1, 5}
Thresholds == {0, 7071, 7075, 10001}
CategoryFilters == {"", "Home", "home", "Nonexistent"}

notIndex == <<products_file, images_dir, s3_service, s3_metadata, s3_objects,
              seed, enc, sm, th, built, lostInstance, run,
              env, app, collection_exists>>

AddProduct ==
    /\ \E p \in IndexProducts, dbOk \in BOOLEAN :
        \E r \in {add_product(index, seed[Server], p.id, p.embedding, p.metadata, dbOk)} :
            /\ index' = r.index
            /\ ingested' = IF r.ret THEN ingested \cup {p.id} ELSE ingested
            /\ last' = Outcome("add_product", <<p.id>>, IF r.ret THEN 1 ELSE 0,
                               IF r.ret THEN <<p.id>> ELSE <<>>, FALSE, dbOk, r.ret)
    /\ UNCHANGED notIndex

DeleteProduct ==
    /\ \E p \in IndexProducts, dbOk \in BOOLEAN :
        \E r \in {delete_product(index, p.id, dbOk)} :
            /\ index' = r.index
            /\ last' = Outcome("delete_product", <<p.id>>, 0, <<>>, FALSE, dbOk, r.ret)
    /\ UNCHANGED ingested
    /\ UNCHANGED notIndex

GetProduct ==
    /\ \E p \in IndexProducts :
        last' = [op |-> "get_product_by_id", id |-> p.id,
                 result |-> get_product_by_id(index, seed[Server], p.id)]
    /\ UNCHANGED <<index, ingested>>
    /\ UNCHANGED notIndex

\* upload_image / search_by_url after the query embedding is computed
SearchSimilar ==
    /\ \E query \in Queries, limit \in SearchLimits, min_score \in Thresholds,
          category \in CategoryFilters, dbOk \in BOOLEAN :
        \E results \in search_similar(index, query, limit, min_score, category, dbOk) :
            last' = [op |-> "search_similar", query |-> query, limit |-> limit,
                     score_threshold |-> min_score,
                     category_filter |-> category, results |-> results,
                     formatted |-> format_search_results(results)]
    /\ UNCHANGED <<index, ingested>>
    /\ UNCHANGED notIndex

InitIndex ==
    /\ IdleCatalog
    /\ IdleManager
    /\ run = NoRun
    /\ enc = NoEnc
    /\ \E sd \in Seeds : seed = [p \in Procs |-> sd]
    /\ IdleStartup

NextIndex ==
    \/ AddProduct
    \/ DeleteProduct
    \/ GetProduct
    \/ SearchSimilar

SpecIndex == InitIndex /\ [][NextIndex]_vars

-----------------------------------------------------------------------------
(* config/settings.py and app.create_app: the environment is set, the      *)
(* application is started, the S3 service is built on first use            *)

S_true == <<"t", "r", "u", "e">>
S_True == <<"T", "r", "u", "e">>
S_false == <<"f", "a", "l", "s", "e">>
S_production == <<"p", "r", "o", "d", "u", "c", "t", "i", "o", "n">>
S_development == <<"d", "e", "v", "e", "l", "o", "p", "m", "e", "n", "t">>
S_Development == <<"D">> \o Tail(S_development)
\* bucket names and keys are not taken apart: one element stands for the text
DEFAULT_BUCKET == <<"visual-product-matcher-images">>
MY_BUCKET == <<"my-bucket">>
SOME_KEY == <<"s3cr3t">>

\* Config.S3_ENABLED
S3_ENABLED(e) == Lower(Get(e, "S3_ENABLED", S_false)) = S_true

\* Config.S3_BUCKET_NAME: [raised (ConfigError), value]
S3_BUCKET_NAME(e) ==
    LET bucket == Get(e, "S3_BUCKET_NAME", DEFAULT_BUCKET)
    IN  [raised |-> S3_ENABLED(e) /\ bucket = <<>>, value |-> bucket]

\* Config.is_production
is_production(e) == Lower(Get(e, "FLASK_ENV", S_development)) = S_production

\* get_config(None): the class is chosen from FLASK_ENV (ProductionConfig when
\* it is not set or not known), its __init__ sets FLASK_ENV if it is not set
\* and validates: [raised (ConfigError), env]
get_config(e) ==
    LET config_name == Lower(Get(e, "FLASK_ENV", S_production))
        e1 == IF "FLASK_ENV" \in DOMAIN e THEN e
              ELSE SetKey(e, "FLASK_ENV",
                          IF config_name = S_development THEN S_development
                          ELSE S_production)
    IN  [raised |-> is_production(e1) /\ Get(e1, "SECRET_KEY", <<>>) = <<>>, env |-> e1]

\* create_app up to initialize_services(service_config): [env, app]
create_app(e) ==
    LET cfg == get_config(e)
        bucket == S3_BUCKET_NAME(cfg.env)
    IN  IF cfg.raised \/ bucket.raised
        THEN [env |-> cfg.env, app |-> [phase |-> "failed"]]
        ELSE [env |-> cfg.env,
              app |-> [phase |-> "configured",
                       config |-> [S3_ENABLED |-> S3_ENABLED(cfg.env),
                                   S3_BUCKET_NAME |-> bucket.value]]]

\* create_s3_service(config): None is <<>>.  bucketOk: the S3Service
\* constructor (credentials, head_bucket, bucket creation) does not raise.
create_s3_service(config, bucketOk) ==
    IF ~config.S3_ENABLED THEN <<>>
    ELSE IF bucketOk THEN <<[bucket_name |-> config.S3_BUCKET_NAME]>>
    ELSE <<>>

EnvValues ==
    [FLASK_ENV |-> {S_production, S_Development},
     SECRET_KEY |-> {<<>>, SOME_KEY},
     S3_ENABLED |-> {S_true, S_True, S_false},
     S3_BUCKET_NAME |-> {<<>>, MY_BUCKET}]

notStartup == <<index, products_file, images_dir, s3_service, s3_metadata, s3_objects,
                seed, ingested, last, enc, sm, th, built, lostInstance, run,
                collection_exists>>

\* The operator sets one variable before the application is started.
SetEnv ==
    /\ app.phase = "down"
    /\ \E k \in DOMAIN EnvValues \ DOMAIN env :
        \E v \in EnvValues[k] : env' = SetKey(env, k, v)
    /\ UNCHANGED app
    /\ UNCHANGED notStartup

CreateApp ==
    /\ app.phase = "down"
    /\ \E r \in {create_app(env)} :
        /\ env' = r.env
        /\ app' = r.app
    /\ UNCHANGED notStartup

\* ServiceManager._initialize_s3_service on the first use of the S3 service
InitializeS3 ==
    /\ app.phase = "configured"
    /\ \E bucketOk \in BOOLEAN :
        app' = [phase |-> "serving", config |-> app.config,
                s3_service |-> create_s3_service(app.config, bucketOk)]
    /\ UNCHANGED env
    /\ UNCHANGED notStartup

InitStartup ==
    /\ IdleCatalog
    /\ IdleManager
    /\ run = NoRun
    /\ enc = NoEnc
    /\ seed = [p \in Procs |-> 0]
    /\ IdleStartup

NextStartup ==
    \/ SetEnv
    \/ CreateApp
    \/ InitializeS3

SpecStartup == InitStartup /\ [][NextStartup]_vars

-----------------------------------------------------------------------------
(* add_uploaded_image_to_database called at the same time by several       *)
(* requests: each step below is one call into the index or the file system *)

notUpload == <<s3_service, s3_metadata, s3_objects, seed, ingested, last, enc,
               sm, th, built, lostInstance, env, app, collection_exists>>

\* the form fields of request r
UploadInfo(r) == [name |-> <<"New", r>>, category |-> "Home", price |-> 5]

UploadOf(r) == [filename |-> <<"u", ".", "p", "n", "g">>, ok |-> TRUE]

\* the record request r appends to products.json
UploadRecord(r) ==
    ManifestRecordOf(run[r].product_id,
                     upload_metadata(run[r].product_id,
                                     upload_filename(run[r].product_id, UploadOf(r)),
                                     UploadInfo(r)))

\* lines 260-271: the existing ids are listed, the new id is generated
UpList(r) ==
    /\ run[r].pc = "idle"
    /\ \E scanOk \in BOOLEAN :
        run' = [run EXCEPT ![r] =
                   [pc |-> "listed",
                    product_id |-> next_product_id(get_all_products(index, ScanLimit, scanOk)),
                    products_data |-> <<>>, ret |-> FALSE]]
    /\ UNCHANGED <<index, products_file, images_dir>>
    /\ UNCHANGED notUpload

\* lines 274-290: the uploaded file is saved
UpSave(r) ==
    /\ run[r].pc = "listed"
    /\ images_dir' = upload_save(images_dir,
                                 upload_filename(run[r].product_id, UploadOf(r)),
                                 UploadOf(r))
    /\ run' = [run EXCEPT ![r].pc = "saved"]
    /\ UNCHANGED <<index, products_file>>
    /\ UNCHANGED notUpload

\* lines 293-307: the embedding is computed and the point inserted
UpInsert(r) ==
    /\ run[r].pc = "saved"
    /\ \E dbOk \in BOOLEAN :
        \E a \in {add_product(index, seed[Server], run[r].product_id,
                     Embedding(upload_filename(run[r].product_id, UploadOf(r))),
                     upload_metadata(run[r].product_id,
                                     upload_filename(run[r].product_id, UploadOf(r)),
                                     UploadInfo(r)),
                     dbOk)} :
            /\ index' = a.index
            /\ run' = [run EXCEPT ![r].pc = IF a.ret THEN "inserted" ELSE "done"]
    /\ UNCHANGED <<products_file, images_dir>>
    /\ UNCHANGED notUpload

\* lines 311-317: products.json is read
UpRead(r) ==
    /\ run[r].pc = "inserted"
    /\ run' = [run EXCEPT ![r].pc = "read",
                          ![r].products_data = IF products_file.exists
                                               THEN products_file.data ELSE <<>>]
    /\ UNCHANGED <<index, products_file, images_dir>>
    /\ UNCHANGED notUpload

\* lines 319-337: the record is appended and the file rewritten; True
UpWrite(r) ==
    /\ run[r].pc = "read"
    /\ products_file' = write_manifest(products_file, run[r].products_data, UploadRecord(r))
    /\ run' = [run EXCEPT ![r].pc = "done", ![r].ret = TRUE]
    /\ UNCHANGED <<index, images_dir>>
    /\ UNCHANGED notUpload

InitUpload ==
    /\ index = EmptyIndex
    /\ \E c \in {Catalog(<<>>, FALSE, {}, FALSE, FALSE, <<>>, {}),
                 Catalog(<<RecP1>>, TRUE, {File(P1, JPG, TRUE)}, TRUE, FALSE, <<>>, {})} :
        /\ products_file = c.file
        /\ images_dir = c.dir
        /\ s3_service = c.service
        /\ s3_metadata = c.metadata
        /\ s3_objects = c.objects
    /\ seed = [p \in Procs |-> 0]
    /\ ingested = {}
    /\ last = NoOutcome
    /\ enc = NoEnc
    /\ IdleManager
    /\ IdleStartup
    /\ run = NoRun

NextUpload ==
    \/ \E r \in Procs : UpList(r)
    \/ \E r \in Procs : UpSave(r)
    \/ \E r \in Procs : UpInsert(r)
    \/ \E r \in Procs : UpRead(r)
    \/ \E r \in Procs : UpWrite(r)

SpecUpload == InitUpload /\ [][NextUpload]_vars

-----------------------------------------------------------------------------
(* QdrantVectorDB.__init__ called by several processes against one server: *)
(* _test_connection, then _create_collection step by step                  *)

Contains(s, sub) ==
    \E i \in 1..(Len(s) - Len(sub) + 1) : SubSeq(s, i, i + Len(sub) - 1) = sub

S_already_exists == <<"a", "l", "r", "e", "a", "d", "y", " ", "e", "x", "i", "s", "t", "s">>
S_File_exists == <<"F", "i", "l", "e", " ", "e", "x", "i", "s", "t", "s">>

\* what create_collection raises for a collection that is there: the local
\* client's ValueError, the server's 409 answer
ExistsErrors ==
    {<<"C", "o", "l", "l", "e", "c", "t", "i", "o", "n", " ", "p", " ">> \o S_already_exists,
     <<"4", "0", "9", " ", "C", "o", "l", "l", "e", "c", "t", "i", "o", "n", " ", "p", " ">>
        \o S_already_exists \o <<"!">>}

\* failures that have nothing to do with the collection
ErrTimeout == <<"t", "i", "m", "e", "d", " ", "o", "u", "t">>
ErrRefused == <<"r", "e", "f", "u", "s", "e", "d">>

\* the handler never re-raises: every failure of create_collection is fatal
already_exists_never(error_msg) == FALSE

\* the test of the except handler of _create_collection (lines 149-150)
already_exists(error_msg) ==
    Contains(error_msg, S_File_exists) \/ Contains(Lower(error_msg), S_already_exists)

notCollection == <<products_file, images_dir, s3_service, s3_metadata, s3_objects,
                   seed, last, enc, sm, th, built, lostInstance, env, app>>

NoCaller == [pc |-> "idle", observed |-> "none", created |-> FALSE, points |-> 0,
             error |-> <<>>]

\* _test_connection: get_collections()
CcTest(r) ==
    /\ run[r].pc = "idle"
    /\ \E connOk \in BOOLEAN :
        run' = [run EXCEPT ![r] = IF connOk THEN [NoCaller EXCEPT !.pc = "get"]
                                  ELSE [NoCaller EXCEPT !.pc = "failed", !.error = ErrRefused]]
    /\ UNCHANGED <<index, ingested, collection_exists>>
    /\ UNCHANGED notCollection

\* get_collection(collection_name): returns when it answers, any exception is
\* taken as "the collection is not there"
CcGet(r) ==
    /\ run[r].pc = "get"
    /\ \E callOk \in BOOLEAN :
        run' = [run EXCEPT ![r].pc = IF collection_exists /\ callOk THEN "done" ELSE "create",
                           ![r].observed = IF collection_exists /\ callOk THEN "present"
                                           ELSE "absent"]
    /\ UNCHANGED <<index, ingested, collection_exists>>
    /\ UNCHANGED notCollection

\* create_collection(...) and the except handler around it
CcCreate(r) ==
    /\ run[r].pc = "create"
    /\ \E error_msg \in (IF collection_exists THEN ExistsErrors ELSE {<<>>}) \cup {ErrTimeout} :
        IF error_msg = <<>>
        THEN /\ collection_exists' = TRUE
             /\ run' = [run EXCEPT ![r].pc = "done", ![r].created = TRUE]
        ELSE /\ collection_exists' = collection_exists
             /\ run' = [run EXCEPT ![r].pc = IF already_exists(error_msg) THEN "done"
                                             ELSE "failed",
                                   ![r].error = error_msg,
                                   ![r].points = Cardinality(DOMAIN index)]
    /\ UNCHANGED <<index, ingested>>
    /\ UNCHANGED notCollection

\* a process whose QdrantVectorDB is built adds a product
CcInsert(r) ==
    /\ run[r].pc = "done"
    /\ \E product_id \in {P1, MUG} :
        \E a \in {add_product(index, seed[r], product_id, Embedding(product_id \o JPG),
                              [name |-> product_id], collection_exists)} :
            /\ index' = a.index
            /\ ingested' = IF a.ret THEN ingested \cup {product_id} ELSE ingested
    /\ UNCHANGED <<run, collection_exists>>
    /\ UNCHANGED notCollection

\* the process is started again and builds a new QdrantVectorDB
CcAgain(r) ==
    /\ run[r].pc \in {"done", "failed"}
    /\ run' = [run EXCEPT ![r] = NoCaller]
    /\ UNCHANGED <<index, ingested, collection_exists>>
    /\ UNCHANGED notCollection

InitCollection ==
    /\ IdleCatalog
    /\ IdleManager
    /\ enc = NoEnc
    /\ seed = [p \in Procs |-> 0]
    /\ env = NoEnv
    /\ app = NoApp
    /\ collection_exists = FALSE
    /\ run = [r \in Procs |-> NoCaller]

NextCollection ==
    \/ \E r \in Procs : CcTest(r)
    \/ \E r \in Procs : CcGet(r)
    \/ \E r \in Procs : CcCreate(r)
    \/ \E r \in Procs : CcInsert(r)
    \/ \E r \in Procs : CcAgain(r)

SpecCollection == InitCollection /\ [][NextCollection]_vars

-----------------------------------------------------------------------------
(* The three write paths of QdrantVectorDB called with metadata the caller *)
(* built, and batches cut into chunks smaller than the batch               *)

MaxChunks == 3       \* bulk writes of one call among which one may fail

\* metadata dicts as callers pass them, one carrying an original_id of its own
MetaPlain == [name |-> <<"A">>, category |-> "Home"]
MetaSupplied == [name |-> <<"B">>, category |-> "Home", original_id |-> P2]
WriteMetadatas == {MetaPlain, MetaSupplied}

WriteProduct(id, metadata) == [id |-> id, embedding |-> Vec(0), metadata |-> metadata]

WriteIds == {P1, P01, P2, MUG}

Batches ==
    {<<>>,
     <<WriteProduct(P1, MetaSupplied)>>,
     <<WriteProduct(P1, MetaPlain), WriteProduct(P2, MetaPlain), WriteProduct(MUG, MetaSupplied)>>,
     <<WriteProduct(P1, MetaPlain), WriteProduct(P2, MetaPlain), WriteProduct(P01, MetaSupplied)>>,
     <<WriteProduct(P2, MetaSupplied), WriteProduct(MUG, MetaPlain), WriteProduct(PABC, MetaPlain)>>}

BatchSizes == {1, 2, DefaultBatchSize}

\* history: the id argument each point was last written under
RECURSIVE WrittenUnder(_, _, _)
WrittenUnder(under, sd, sids) ==
    IF sids = <<>> THEN under
    ELSE WrittenUnder(SetKey(under, numeric_id(sd, Head(sids)).val, Head(sids)),
                      sd, Tail(sids))

NoWrite == [op |-> "none", under |-> [n \in {} |-> <<>>]]

WriteBatch ==
    /\ \E products \in Batches, batch_size \in BatchSizes, failAt \in 0..MaxChunks :
        \E r \in {add_products_batch(index, seed[Server], products, batch_size, failAt)} :
            /\ index' = r.index
            /\ last' = [op |-> "add_products_batch", products |-> products,
                        batch_size |-> batch_size, failAt |-> failAt, ret |-> r.ret,
                        upserts |-> r.upserts, written |-> r.written, raised |-> r.raised,
                        under |-> WrittenUnder(last.under, seed[Server], r.written)]
    /\ UNCHANGED ingested
    /\ UNCHANGED notIndex

WriteOne ==
    /\ \E product_id \in WriteIds, metadata \in WriteMetadatas, dbOk \in BOOLEAN :
        \E r \in {add_product(index, seed[Server], product_id, Vec(0), metadata, dbOk)} :
            /\ index' = r.index
            /\ last' = [op |-> "add_product",
                        products |-> <<WriteProduct(product_id, metadata)>>, ret |-> r.ret,
                        under |-> IF r.ret
                                  THEN WrittenUnder(last.under, seed[Server], <<product_id>>)
                                  ELSE last.under]
    /\ UNCHANGED ingested
    /\ UNCHANGED notIndex

WriteMetadata ==
    /\ \E product_id \in WriteIds, metadata \in WriteMetadatas, dbOk \in BOOLEAN :
        \E r \in {update_product_metadata(index, seed[Server], product_id, metadata, dbOk)} :
            /\ index' = r.index
            /\ last' = [op |-> "update_product_metadata",
                        products |-> <<WriteProduct(product_id, metadata)>>, ret |-> r.ret,
                        under |-> IF r.ret /\ index' # index
                                  THEN WrittenUnder(last.under, seed[Server], <<product_id>>)
                                  ELSE last.under]
    /\ UNCHANGED ingested
    /\ UNCHANGED notIndex

InitWrite ==
    /\ index = EmptyIndex
    /\ products_file = NoCatalog.file
    /\ images_dir = NoCatalog.dir
    /\ s3_service = NoCatalog.service
    /\ s3_metadata = NoCatalog.metadata
    /\ s3_objects = NoCatalog.objects
    /\ ingested = {}
    /\ last = NoWrite
    /\ IdleManager
    /\ run = NoRun
    /\ enc = NoEnc
    /\ seed = [p \in Procs |-> 0]
    /\ IdleStartup

NextWrite ==
    \/ WriteBatch
    \/ WriteOne
    \/ WriteMetadata

SpecWrite == InitWrite /\ [][NextWrite]_vars

-----------------------------------------------------------------------------
(* Loading and orphan discovery on their own: the start-up sync and the    *)
(* scans of the image directory, without uploads or metadata edits         *)

NextOrphan ==
    \/ LoadLocal
    \/ LoadS3
    \/ ScanLocal
    \/ SyncS3

SpecOrphan == Init /\ [][NextOrphan]_vars

-----------------------------------------------------------------------------
(* Properties *)

\* C1: catalog sync is idempotent.  From an empty index, for a fixed manifest
\* and image set, a second run of the same manifest sync (no index or bucket
\* failure in either run, nothing changed in between) stages nothing, issues
\* no upsert and leaves the index as the first run left it.
C1_SyncIdempotent ==
    [][(/\ last.seq = 1
        /\ last'.seq = 2
        /\ last.op \in {"load_local", "load_s3"}
        /\ last'.op = last.op
        /\ last.clean /\ last.ok
        /\ last'.clean)
       => (/\ last'.staged = <<>>
           /\ last'.upserts = 0
           /\ index' = index)]_vars

\* C2: after any sequence of sync, orphan discovery and add-product
\* operations, every ingested record has exactly one index point whose
\* payload original_id is the record's id.
C2_OnePointPerRecord ==
    \A x \in ingested :
        Cardinality({n \in DOMAIN index : ReportedId(index, n) = x}) = 1

\* C3: the codec is injective over the ids in use: two distinct ids of
\* ingested products never have the same numeric point id.
C3_CodecInjective ==
    \A x, y \in ingested :
        x # y => numeric_id(seed[Server], x).val # numeric_id(seed[Server], y).val

\* C4: the codec is total: the conversion of an id to its numeric id never
\* raises, whatever the string.
C4_CodecTotal ==
    \A p \in Procs : \A e \in enc[p] : e.ok

\* C5: the codec is deterministic across processes: two independently
\* started processes convert the same id to the same numeric id.
C5_CodecDeterministic ==
    \A p, q \in Procs :
        \A e \in enc[p], f \in enc[q] :
            e.id = f.id => (e.ok = f.ok /\ e.val = f.val)

\* C6: a bad manifest record never aborts a sync run: after a manifest sync
\* without index or bucket failure, every record of the manifest that has its
\* keys, a readable image and a convertible id has its point in the index,
\* whatever the other records are.
C6_BadRecordSkipped ==
    [][(/\ last'.seq = last.seq + 1
        /\ last'.op \in {"load_local", "load_s3"}
        /\ last'.clean)
       => LET fromBucket == last'.op = "load_s3" /\ s3_metadata # <<>>
              manifest == IF fromBucket THEN s3_metadata ELSE products_file.data
              hasImage(product) ==
                  IF fromBucket
                  THEN /\ "image_path" \in DOMAIN product
                       /\ UrlEmbeddable(s3_objects, product.image_path)
                  ELSE /\ images_dir.exists
                       /\ \E f \in images_dir.files :
                            /\ <<f.filename>> = find_product_image(images_dir.files,
                                                                   product.id)
                            /\ f.ok
          IN  \A i \in 1..Len(manifest) :
                (/\ "id" \in DOMAIN manifest[i]
                 /\ RequiredKeys \subseteq DOMAIN manifest[i]
                 /\ hasImage(manifest[i])
                 /\ numeric_id(seed[Server], manifest[i].id).ok)
                => numeric_id(seed[Server], manifest[i].id).val \in DOMAIN index']_vars

\* C7: round-trip id recovery: a lookup of an ingested product by the id it
\* was inserted under reports that id, and no result reports the internal
\* numeric id, also after update_product_metadata.
C7_RoundTrip ==
    /\ \A n \in DOMAIN index : ~IsPyInt(ReportedId(index, n))
    /\ \A x \in ingested :
         \A res \in SeqToSet(get_product_by_id(index, seed[Server], x)) : res.id = x

\* C8: orphan discovery: after scan_and_add_new_images without index failure,
\* every readable image file that had no manifest entry and no index point is
\* in the index under its file name without the extension, with the
\* placeholder name, category 'Unknown', price 0 and rating 0.
C8_OrphanInserted ==
    [][(/\ last'.seq = last.seq + 1
        /\ last'.op = "scan_local"
        /\ last'.clean)
       => \A f \in images_dir.files :
            LET product_id == SplitExt(f.filename)[1]
            IN  (/\ HasSupportedSuffix(f.filename)
                 /\ f.ok
                 /\ product_id \notin
                      existing_ids_of(get_all_products(index, ScanLimit, TRUE))
                 /\ \A i \in 1..Len(products_file.data) :
                      Get(products_file.data[i], "id", <<>>) # product_id)
                => \E n \in DOMAIN index' :
                     /\ ReportedId(index', n) = product_id
                     /\ index'[n].payload.name = <<"Product ">> \o product_id
                     /\ index'[n].payload.category = "Unknown"
                     /\ index'[n].payload.price = 0
                     /\ index'[n].payload.rating = 0]_vars

C10_OverlapHarmless ==
    (\A r \in Procs : run[r].pc = "done" /\ run[r].batch # <<>>)
    => LET staged(r) == SeqToSet(StagedIds(run[r].batch))
           common == {x \in staged(Server) : \A r \in Procs : x \in staged(r)}
           all == UNION {staged(r) : r \in Procs}
       IN  /\ \A x \in common :
                Cardinality({n \in DOMAIN index : ReportedId(index, n) = x}) = 1
           /\ Cardinality(DOMAIN index) = Cardinality(all)

\* C11: get_all_products(limit) does not truncate or repeat.  Whenever the
\* index holds at most `limit` points, the listing reports every stored point
\* exactly once.
C11_ListsEachPointOnce ==
    (last.op = "get_all_products" /\ Cardinality(DOMAIN index) <= last.limit)
    => /\ Len(last.results) = Cardinality(DOMAIN index)
       /\ \A n \in DOMAIN index :
            \E i \in 1..Len(last.results) : last.results[i].id = ReportedId(index, n)

\* C12: add_uploaded_image_to_database gives the new product the id
\* 'product_' + (largest numeric suffix among the stored ids + 1) padded to
\* three digits (product_001 on an empty index), and no point already in the
\* index has that id.  Stated for the calls that add the product.
C12_FreshSequentialId ==
    [][(last'.seq = last.seq + 1 /\ last'.op = "add_uploaded" /\ last'.ok)
       => LET product_id == last'.staged[1]
              stored == ResultsOf(index, SortedSeq(DOMAIN index))
          IN  /\ product_id = PRODUCT_ \o Format03d(SetMax(existing_numbers_of(stored), 0) + 1)
              /\ \A n \in DOMAIN index : ReportedId(index, n) # product_id]_vars

\* C13: point-level delete goes through the identifier codec.  After
\* delete_product(id) has returned True for an id that was inserted with
\* add_product, no point is stored at the numeric id derived from `id` and
\* get_product_by_id(id) returns None.
C13_DeleteRemovesPoint ==
    (last.op = "delete_product" /\ last.ok /\ last.staged[1] \in ingested)
    => /\ numeric_id(seed[Server], last.staged[1]).val \notin DOMAIN index
       /\ get_product_by_id(index, seed[Server], last.staged[1]) = <<>>

\* C14: the numeric id fits the declared int32 range.  For every string id
\* the codec converts, 'product_<digits>' with any number of digits included,
\* the numeric id is in [0, 2^31).
C14_FitsInt32 ==
    \A p \in Procs : \A e \in enc[p] :
        e.ok => (~e.wide /\ 0 <= e.val /\ e.val <= Int32Max)

\* C15: category filter correctness.  When search_similar is called with a
\* category filter (a non-empty string; the empty string is no filter), every
\* result's payload category equals the filter value exactly, and a value that
\* is the category of no stored point gives the empty list.
C15_FilterExact ==
    (last.op = "search_similar" /\ last.category_filter # "")
    => /\ \A i \in 1..Len(last.results) :
            last.results[i].metadata.category = last.category_filter
       /\ (\A n \in DOMAIN index : index[n].payload.category # last.category_filter)
            => last.results = <<>>

\* a search filtered on "Home" has answered while a point of category "home"
\* scores above the threshold
C15_Witness ==
    /\ last.op = "search_similar"
    /\ last.category_filter = "Home"
    /\ last.results # <<>>
    /\ \E n \in DOMAIN index :
           /\ index[n].payload.category = "home"
           /\ Cosine(last.query, index[n].vector) >= last.score_threshold

\* C16: threshold correctness.  search_similar with score_threshold T returns
\* no result whose score is below T, and every score shown after
\* format_search_results is the 3-decimal rounding of the score of a returned
\* result, which passed the threshold.
C16_ThresholdRespected ==
    last.op = "search_similar"
    => /\ \A i \in 1..Len(last.results) : last.results[i].score >= last.score_threshold
       /\ Len(last.formatted) = Len(last.results)
       /\ \A i \in 1..Len(last.formatted) :
            /\ last.formatted[i].id = last.results[i].id
            /\ last.formatted[i].similarity_score = Round3(last.results[i].score)

\* a search with threshold 0.7071 has returned a result of score 0.7071, shown
\* as 0.707, while a stored point scores below the threshold
C16_Witness ==
    /\ last.op = "search_similar"
    /\ last.score_threshold = 7071
    /\ \E i \in 1..Len(last.results) :
           /\ last.results[i].score = 7071
           /\ last.formatted[i].similarity_score = 7070
    /\ \E n \in DOMAIN index : Cosine(last.query, index[n].vector) < last.score_threshold

\* C17: the local and the remote backend are never mixed within one run.
\* With the object store selected, whatever manifest sync and orphan discovery
\* write into the index was read from the object store: its id is the id of a
\* record of the bucket's manifest or the name of an image object of the
\* bucket, never one found only in the local manifest or image directory.
C17_BackendsNotMixed ==
    [][(/\ s3_service
        /\ last'.seq = last.seq + 1
        /\ last'.op \in {"load_s3", "sync_s3"})
       => LET fromManifest == {s3_metadata[i].id :
                                  i \in {j \in 1..Len(s3_metadata) :
                                            "id" \in DOMAIN s3_metadata[j]}}
              fromObjects == {SplitExt(o.key)[1] : o \in s3_objects}
          IN  SeqToSet(last'.written) \subseteq (fromManifest \cup fromObjects)]_vars

\* C18: a missing required backend setting is fatal at start-up.  Once
\* create_app has run with the object store enabled and no bucket name in the
\* environment (not set, or empty), the application has failed to start: it
\* runs neither with a default bucket nor on the local backend.
C18_MissingBucketFatal ==
    (/\ app.phase # "down"
     /\ S3_ENABLED(env)
     /\ Get(env, "S3_BUCKET_NAME", <<>>) = <<>>)
    => app.phase = "failed"

\* C19: manifest rewrites are unlocked whole-file read-modify-write, so that
\* concurrent writers can lose updates.  When all concurrent uploads have
\* returned True, products.json is what one of them read plus its own record
\* (the last writer's view); the witness is a state where both returned True,
\* with different product ids, and the file holds the record of only one.
C19_LastWriterWins ==
    (\A r \in Procs : run[r].pc = "done" /\ run[r].ret)
    => \E r \in Procs :
          products_file = write_manifest(products_file, run[r].products_data, UploadRecord(r))

C19_Witness ==
    /\ \A r \in Procs : run[r].pc = "done" /\ run[r].ret
    /\ Cardinality({r \in Procs : UploadRecord(r) \in SeqToSet(products_file.data)}) = 1
    /\ \A r, q \in Procs : r # q => run[r].product_id # run[q].product_id

\* C20: ensure-collection is idempotent and tolerates the creation race.  A
\* construction fails only for a failure that is not "already exists"; a
\* finished construction means the collection is there; a construction that
\* finds the collection or loses the race to create it does not create
\* another one; and the points stored in the collection stay as they are.
C20_EnsureCollection ==
    /\ \A r \in Procs :
          run[r].pc = "failed" => run[r].error \in {ErrTimeout, ErrRefused}
    /\ \A r \in Procs : run[r].pc = "done" => collection_exists
    /\ \A r \in Procs : (run[r].pc = "done" /\ run[r].observed = "present") => ~run[r].created
    /\ \A x \in ingested : numeric_id(seed[Server], x).val \in DOMAIN index

\* two constructions both found the collection absent, one created it, the
\* other got "already exists" while a point was already stored, both finished
C20_Witness ==
    /\ \A r \in Procs : run[r].pc = "done" /\ run[r].observed = "absent"
    /\ \E r \in Procs : run[r].created
    /\ \E r \in Procs : ~run[r].created /\ run[r].error \in ExistsErrors /\ run[r].points > 0
    /\ ingested # {}

C22_OriginalIdIsWrittenId ==
    \A n \in DOMAIN index :
        /\ n \in DOMAIN last.under
        /\ "original_id" \in DOMAIN index[n].payload
        /\ index[n].payload.original_id = last.under[n]

\* a point written from metadata that carried another product's original_id
C22_Witness ==
    /\ last.op \in {"add_product", "add_products_batch", "update_product_metadata"}
    /\ \E i \in 1..Len(last.products) :
        LET pr == last.products[i]
            n == numeric_id(seed[Server], pr.id).val
        IN  /\ "original_id" \in DOMAIN pr.metadata
            /\ pr.metadata.original_id # pr.id
            /\ n \in DOMAIN index
            /\ last.under[n] = pr.id
            /\ index[n].payload.original_id = pr.id
            /\ index[n].payload.name = pr.metadata.name

\* C23: the local orphan scan appends the records it synthesized for the
\* newly discovered images to the local manifest file; the remote sync
\* changes neither the manifest object in the bucket nor the local manifest
\* file.
C23_WriteBackAsymmetry ==
    [][/\ (last'.op = "scan_local" /\ last'.seq = last.seq + 1) =>
            /\ s3_metadata' = s3_metadata
            /\ IF last'.staged = <<>> THEN products_file' = products_file
               ELSE LET old == IF products_file.exists THEN products_file.data ELSE <<>>
                        new == products_file'.data
                    IN  /\ products_file'.exists
                        /\ Len(new) = Len(old) + Len(last'.staged)
                        /\ SubSeq(new, 1, Len(old)) = old
                        /\ \A i \in 1..Len(last'.staged) :
                            /\ new[Len(old) + i].id = last'.staged[i]
                            /\ new[Len(old) + i].category = "Unknown"
       /\ (last'.op = "sync_s3" /\ last'.seq = last.seq + 1) =>
            /\ s3_metadata' = s3_metadata
            /\ products_file' = products_file]_vars

\* a remote sync that staged an image a local scan had staged before it: the
\* local manifest holds the record the scan appended, the sync added none to
\* it and none to the manifest in the bucket
C23_Witness ==
    /\ last.op = "sync_s3"
    /\ last.staged # <<>>
    /\ \A i \in 1..Len(last.staged) :
        /\ Cardinality({k \in 1..Len(products_file.data) :
                           /\ products_file.data[k].id = last.staged[i]
                           /\ products_file.data[k].category = "Unknown"}) = 1
        /\ \A k \in 1..Len(s3_metadata) :
            "id" \in DOMAIN s3_metadata[k] => s3_metadata[k].id # last.staged[i]

\* C24: get_all_products(limit) returns at most `limit` products, whatever
\* the limit and the size of the index.
C24_AtMostLimit ==
    last.op = "get_all_products" => Len(last.results) <= last.limit

\* C25: format_search_results returns one entry per search hit, in the order
\* the index returned the hits, with the score rounded to 3 decimals; the
\* image reference of an entry is the payload's image_url when present and
\* not empty, and '/api/images/<stored file name>' otherwise.
C25_FormatKeepsRanking ==
    last.op = "search_similar" =>
        /\ Len(last.formatted) = Len(last.results)
        /\ \A i \in 1..Len(last.results) :
            LET hit == last.results[i]
                entry == last.formatted[i]
                md == hit.metadata
            IN  /\ entry.id = hit.id
                /\ entry.name = md.name
                /\ entry.similarity_score % 10 = 0
                /\ entry.similarity_score - hit.score \in -5..5
                /\ entry.image_url =
                      IF "image_url" \in DOMAIN md /\ md.image_url # <<>>
                      THEN md.image_url
                      ELSE <<"/api/images/">> \o md.name \o JPG
        /\ \A i, j \in 1..Len(last.formatted) :
            i < j => last.formatted[i].similarity_score >= last.formatted[j].similarity_score

\* three hits of different scores: one shown by its bucket URL, one whose
\* image_url is empty and whose image_path has a directory, one without a URL
C25_Witness ==
    /\ last.op = "search_similar"
    /\ Len(last.results) >= 3
    /\ last.results[1].score > last.results[Len(last.results)].score
    /\ \E i, j, k \in 1..Len(last.results) :
        /\ last.formatted[i].image_url = ImageUrl(MUG \o JPG)
        /\ last.results[j].metadata.image_path = IMG_DIR \o P2 \o JPG
        /\ last.formatted[j].image_url = <<"/api/images/">> \o P2 \o JPG
        /\ "image_url" \notin DOMAIN last.results[k].metadata
        /\ last.formatted[k].image_url = <<"/api/images/">> \o P1 \o JPG

\* C26: orphan discovery never touches an existing point: a run of
\* scan_and_add_new_images or sync_new_images_to_s3 leaves every point that
\* was in the index before it as it was, also when the index scan fails.
C26_OrphanKeepsExisting ==
    [][(last'.op \in {"scan_local", "sync_s3"} /\ last'.seq = last.seq + 1) =>
            \A n \in DOMAIN index : n \in DOMAIN index' /\ index'[n] = index[n]]_vars

\* C27: the local manifest never holds two records with the same id: after
\* any sequence of scans and uploads each id appears at most once in
\* products.json.
C27_ManifestIdsUnique ==
    \A i, j \in 1..Len(products_file.data) :
        (/\ i < j
         /\ "id" \in DOMAIN products_file.data[i]
         /\ "id" \in DOMAIN products_file.data[j])
            => products_file.data[i].id # products_file.data[j].id

\* C28: catalog synchronization runs whichever of the embedding provider and
\* the vector index is accessed first: once both have been constructed and
\* the calls that constructed them have returned, load_sample_products has
\* been executed at least once.
C28_SyncRunsEitherOrder ==
    (/\ sm.vector_db # 0
     /\ sm.clip_model # 0
     /\ \A t \in Threads : th[t].pc = "idle")
        => built.synced >= 1

\* C29: concurrent add-single-product calls get distinct ids: when two
\* add_uploaded_image_to_database calls have both returned True, their
\* products are stored under different ids and each can be read back from
\* the index.
C29_ConcurrentIdsDistinct ==
    \A r, q \in Procs :
        (r # q /\ run[r].pc = "done" /\ run[r].ret /\ run[q].pc = "done" /\ run[q].ret)
            => /\ run[r].product_id # run[q].product_id
               /\ \E hit \in {get_product_by_id(index, seed[Server], run[r].product_id)} :
                    /\ hit # <<>>
                    /\ hit[1].metadata.name = UploadInfo(r).name

\* C30: a failed add-single-product leaves the catalog unchanged: when
\* add_uploaded_image_to_database returns False, the index, the manifest file
\* and the image directory are what they were before the call.
C30_FailedAddChangesNothing ==
    [][(last'.op = "add_uploaded" /\ last'.seq = last.seq + 1 /\ ~last'.ok) =>
            /\ index' = index
            /\ products_file' = products_file
            /\ images_dir' = images_dir]_vars

=============================================================================
